---- MODULE Spec2Model ----
(***************************************************************************)
(* Model of the local natural-language scene editor of Fludo               *)
(* (src/app/agent.py): run_local, build_spec and the helpers they call.    *)
(*                                                                         *)
(* Texts are strings; substring tests, number extraction and keyword       *)
(* matching are computed on the characters.  Real numbers are fixed-point  *)
(* integers in units of 1/F.  Python objects that the code shares by       *)
(* reference (scene dict, object list, object dicts, params and transform  *)
(* dicts) live in a heap of cells so that aliasing is visible.             *)
(*                                                                         *)
(* The code history of the studio (src/app/undo_manager.py) is modelled    *)
(* next to it: one UndoRedoManager and the calls made on it.               *)
(***************************************************************************)
EXTENDS Integers, Sequences, FiniteSets, TLC

VARIABLES
    scene,      \* the scene the client holds
    steps,      \* how many answers of run_local the client has taken as its scene
    addRun,     \* steps, as long as every one of them was the text ADD_TEXT; else -1
    entry,      \* the entry point of the request answered last: "none" before any
    lastText,   \* the text of that request
    ai,         \* what the generative service did in that request
    outcome,    \* "ok" when the request returned, "raised" when it raised
    result,     \* the scene returned
    after,      \* the scene that was passed to run_local, as it is after the call
    history,        \* UndoRedoManager.history
    current_index,  \* UndoRedoManager.current_index
    max_history,    \* UndoRedoManager.max_history
    pushes,     \* how many entries were created: the clock their timestamps are read from
    op,         \* the method of the manager called last: "none" before any
    arg,        \* its arguments
    ret         \* what it returned

RECURSIVE Call(_, _)

\* the client of the editor and the code history
clientVars == <<scene, steps, addRun, entry, lastText, ai, outcome, result, after>>
managerVars == <<history, current_index, max_history, pushes, op, arg, ret>>

vars == <<clientVars, managerVars>>

(***************************************************************************)
(* Bounds of the model.                                                    *)
(***************************************************************************)
\* the client takes at most MaxSteps answers as its scene
MaxSteps == 3
\* and only answers of at most MaxObjects objects
MaxObjects == 5
\* build_spec is asked on the scenes at most MaxAiSteps answers from the start
MaxAiSteps == 2
\* the managers keep at most 1 .. MaxHistory entries (max_history)
MaxHistory == 3
\* at most MaxPushes entries are pushed
MaxPushes == 5

(***************************************************************************)
(* Fixed-point arithmetic: a real r is the integer r * F.                  *)
(***************************************************************************)
F == 10 ^ 4

Max(a, b) == IF a >= b THEN a ELSE b
Min(a, b) == IF a <= b THEN a ELSE b

\* a * b for fixed-point a, b (b >= 0), without leaving 32 bits
Mul(a, b) == a * (b \div F) + (a * (b % F)) \div F

\* a / 2
Half(a) == a \div 2

(***************************************************************************)
(* Characters and strings.                                                 *)
(***************************************************************************)
Digits == {"0", "1", "2", "3", "4", "5", "6", "7", "8", "9"}
LowerLetters == {"a", "b", "c", "d", "e", "f", "g", "h", "i", "j", "k", "l", "m",
                 "n", "o", "p", "q", "r", "s", "t", "u", "v", "w", "x", "y", "z"}
UpperLetters == {"A", "B", "C", "D", "E", "F", "G", "H", "I", "J", "K", "L", "M",
                 "N", "O", "P", "Q", "R", "S", "T", "U", "V", "W", "X", "Y", "Z"}
WordChars == Digits \cup LowerLetters \cup UpperLetters \cup {"_"}

At(s, i) == SubSeq(s, i, i)

DigitVal(c) ==
    CASE c = "0" -> 0 [] c = "1" -> 1 [] c = "2" -> 2 [] c = "3" -> 3 [] c = "4" -> 4
      [] c = "5" -> 5 [] c = "6" -> 6 [] c = "7" -> 7 [] c = "8" -> 8 [] c = "9" -> 9

\* str.lower() on one character
LowerChar(c) ==
    IF c \notin UpperLetters THEN c ELSE
    CASE c = "A" -> "a" [] c = "B" -> "b" [] c = "C" -> "c" [] c = "D" -> "d"
      [] c = "E" -> "e" [] c = "F" -> "f" [] c = "G" -> "g" [] c = "H" -> "h"
      [] c = "I" -> "i" [] c = "J" -> "j" [] c = "K" -> "k" [] c = "L" -> "l"
      [] c = "M" -> "m" [] c = "N" -> "n" [] c = "O" -> "o" [] c = "P" -> "p"
      [] c = "Q" -> "q" [] c = "R" -> "r" [] c = "S" -> "s" [] c = "T" -> "t"
      [] c = "U" -> "u" [] c = "V" -> "v" [] c = "W" -> "w" [] c = "X" -> "x"
      [] c = "Y" -> "y" [] c = "Z" -> "z" [] OTHER -> c

RECURSIVE LowerFrom(_, _)
LowerFrom(s, i) == IF i > Len(s) THEN "" ELSE LowerChar(At(s, i)) \o LowerFrom(s, i + 1)

\* str.lower()
Lower(s) == LowerFrom(s, 1)

\* " ".join(s.split()): runs of blanks collapse to one, leading and trailing blanks go
RECURSIVE CollapseFrom(_, _, _)
CollapseFrom(s, i, pending) ==
    IF i > Len(s) THEN ""
    ELSE IF At(s, i) = " " THEN CollapseFrom(s, i + 1, TRUE)
    ELSE (IF pending THEN " " ELSE "") \o At(s, i) \o CollapseFrom(s, i + 1, FALSE)

RECURSIVE SkipBlanks(_, _)
SkipBlanks(s, i) == IF i <= Len(s) /\ At(s, i) = " " THEN SkipBlanks(s, i + 1) ELSE i

_normalize(text) == CollapseFrom(Lower(text), SkipBlanks(Lower(text), 1), FALSE)

\* k in s  (Python substring test)
Contains(s, k) ==
    \E i \in 1..(Len(s) - Len(k) + 1) : SubSeq(s, i, i + Len(k) - 1) = k

\* any(k in s for k in ks)
ContainsAny(s, ks) == \E k \in ks : Contains(s, k)

\* the smallest index >= from at which k occurs in s, or 0
RECURSIVE FindFrom(_, _, _)
FindFrom(s, k, from) ==
    IF from + Len(k) - 1 > Len(s) THEN 0
    ELSE IF SubSeq(s, from, from + Len(k) - 1) = k THEN from
    ELSE FindFrom(s, k, from + 1)

\* the end (exclusive) of the run of digits of s that starts at i
RECURSIVE DigitsEnd(_, _)
DigitsEnd(s, i) == IF i <= Len(s) /\ At(s, i) \in Digits THEN DigitsEnd(s, i + 1) ELSE i

\* the digits s[i..j-1] as an integer
RECURSIVE IntOf(_, _, _)
IntOf(s, i, j) == IF i >= j THEN 0 ELSE IntOf(s, i, j - 1) * 10 + DigitVal(At(s, j - 1))

\* the digits s[i..j-1] as a fraction 0.d1d2.. in fixed point (4 places kept)
FracOf(s, i, j) ==
    LET d(n) == IF i + n < j THEN DigitVal(At(s, i + n)) ELSE 0
    IN  d(0) * 1000 + d(1) * 100 + d(2) * 10 + d(3)

(***************************************************************************)
(* A match of the regex  \d*\.?\d+  at position i: [ok, end, val].         *)
(***************************************************************************)
UnsignedAt(s, i) ==
    LET e1 == DigitsEnd(s, i)
        dot == e1 <= Len(s) /\ At(s, e1) = "."
        e2 == IF dot THEN DigitsEnd(s, e1 + 1) ELSE e1
    IN  IF dot /\ e2 > e1 + 1
        THEN [ok |-> TRUE, end |-> e2, val |-> IntOf(s, i, e1) * F + FracOf(s, e1 + 1, e2)]
        ELSE IF e1 > i
        THEN [ok |-> TRUE, end |-> e1, val |-> IntOf(s, i, e1) * F]
        ELSE [ok |-> FALSE, end |-> i, val |-> 0]

\* a match of  [-+]?\d*\.?\d+  at position i
NumberAt(s, i) ==
    IF i <= Len(s) /\ At(s, i) \in {"-", "+"}
    THEN LET u == Call("UnsignedAt", <<s, i + 1>>)
         IN  [ok |-> u.ok, end |-> u.end, val |-> IF At(s, i) = "-" THEN 0 - u.val ELSE u.val]
    ELSE Call("UnsignedAt", <<s, i>>)

RECURSIVE NumbersFrom(_, _)
NumbersFrom(s, i) ==
    IF i > Len(s) THEN <<>>
    ELSE LET n == Call("NumberAt", <<s, i>>)
         IN  IF n.ok THEN <<n.val>> \o NumbersFrom(s, n.end) ELSE NumbersFrom(s, i + 1)

\* re.findall(r"[-+]?\d*\.?\d+", text) as floats
_extract_numbers(text) == NumbersFrom(text, 1)

(***************************************************************************)
(* Keyword tables (agent.py:46-181), in the source's order.                *)
(***************************************************************************)
COLOR_KEYWORDS ==
    << <<"bright red", "#ff4b5c">>, <<"red", "#ff4b5c">>, <<"blue", "#3d7eff">>,
       <<"navy", "#2b4c9a">>, <<"light blue", "#7ab8ff">>, <<"green", "#34c759">>,
       <<"lime", "#a8f152">>, <<"emerald", "#2ecc71">>, <<"yellow", "#ffd60a">>,
       <<"gold", "#f5c542">>, <<"orange", "#ff8c42">>, <<"purple", "#a855f7">>,
       <<"violet", "#8f5bff">>, <<"pink", "#ff5fa2">>, <<"magenta", "#ff2d95">>,
       <<"cyan", "#4dd0e1">>, <<"aqua", "#4dd0e1">>, <<"turquoise", "#2ad7b6">>,
       <<"white", "#f5f5f5">>, <<"black", "#111111">>, <<"gray", "#8e8e93">>,
       <<"grey", "#8e8e93">>, <<"silver", "#b0b8c5">>, <<"bronze", "#b07d3c">>,
       <<"copper", "#b87333">>, <<"teal", "#3cc1b3">>, <<"brown", "#8b5a2b">> >>

TYPE_SYNONYMS ==
    [box |-> {"box", "cube", "block", "rect", "rectangle", "rectangular"},
     cylinder |-> {"cylinder", "tube", "pipe", "column"},
     sphere |-> {"sphere", "ball", "orb", "globe"},
     plane |-> {"plane", "sheet", "panel", "floor", "ground", "surface"},
     cone |-> {"cone", "pyramid"},
     torus |-> {"torus", "ring", "donut", "doughnut"},
     torusknot |-> {"torus knot", "torusknot", "knot"},
     external_model |-> {"model", "import", "mesh", "gltf", "obj", "asset"},
     assembly |-> {"assembly", "mechanism", "robot hand", "robotic hand", "gripper",
                   "end effector", "bicycle", "bike"}]

ORDINAL_KEYWORDS ==
    << <<"first", 0>>, <<"1st", 0>>, <<"second", 1>>, <<"2nd", 1>>, <<"third", 2>>,
       <<"3rd", 2>>, <<"fourth", 3>>, <<"4th", 3>>, <<"fifth", 4>>, <<"5th", 4>>,
       <<"last", -1>>, <<"final", -1>>, <<"previous", -1>>, <<"current", -1>> >>

SCALE_UP_WORDS == {"bigger", "larger", "increase", "wider", "taller", "longer", "scale up", "expand", "grow"}
SCALE_DOWN_WORDS == {"smaller", "shorter", "narrower", "reduce", "decrease", "shrink", "scale down", "thin"}
WIDTH_POSITIVE == {"wider", "thicker", "broader"}
WIDTH_NEGATIVE == {"narrower", "thinner", "slimmer"}
HEIGHT_POSITIVE == {"taller", "higher", "raise", "elevate"}
HEIGHT_NEGATIVE == {"shorter", "lower", "shorten", "flatten"}
DEPTH_POSITIVE == {"longer", "deeper", "extend", "stretch"}
DEPTH_NEGATIVE == {"shorter", "shallower", "trim"}

DIMENSION_KEYWORDS ==
    {"width", "wide", "depth", "deep", "length", "long", "height", "tall", "radius", "rad",
     "diameter", "tube", "minor", "major", "size", "thick", "thin", "thickness", "scale"}

\* (keyword, vector) in the source's order; the vectors are whole numbers
DIRECTION_KEYWORDS ==
    << <<"up", <<0, 0, 1>> >>, <<"upwards", <<0, 0, 1>> >>, <<"raise", <<0, 0, 1>> >>,
       <<"higher", <<0, 0, 1>> >>, <<"above", <<0, 0, 1>> >>, <<"down", <<0, 0, -1>> >>,
       <<"lower", <<0, 0, -1>> >>, <<"drop", <<0, 0, -1>> >>, <<"below", <<0, 0, -1>> >>,
       <<"beneath", <<0, 0, -1>> >>, <<"under", <<0, 0, -1>> >>, <<"left", <<-1, 0, 0>> >>,
       <<"right", <<1, 0, 0>> >>, <<"forward", <<0, 1, 0>> >>, <<"ahead", <<0, 1, 0>> >>,
       <<"front", <<0, 1, 0>> >>, <<"back", <<0, -1, 0>> >>, <<"backward", <<0, -1, 0>> >>,
       <<"toward", <<0, 1, 0>> >>, <<"towards", <<0, 1, 0>> >> >>

\* (hint, axis) in the source's order; axes are numbered from 1 here (Python's 0, 1, 2)
ROTATION_AXIS_HINTS ==
    << <<"x", 1>>, <<"x-axis", 1>>, <<"roll", 1>>, <<"y", 2>>, <<"y-axis", 2>>, <<"yaw", 2>>,
       <<"z", 3>>, <<"z-axis", 3>>, <<"pitch", 3>> >>

ADD_KEYWORDS == {"add", "include", "spawn", "create", "new", "another", "place", "insert", "generate"}
CLONE_KEYWORDS == {"duplicate", "copy", "clone"}
REPLACE_KEYWORDS == {"replace", "swap", "switch"}
ADD_PHRASES == {"make a", "make an", "build a", "build another", "create a", "create an"}
MOVE_VERBS == {"move", "shift", "slide", "raise", "lower", "position", "place"}
ROTATE_VERBS == {"rotate", "rotation", "twist", "spin", "turn"}

(***************************************************************************)
(* _extract_position_triplet: the first match of                           *)
(*   (?:at|to)\s*\(?\s*(num)\s*[,\s]+(num)\s*[,\s]+(num)                    *)
(* as [ok, val].                                                           *)
(***************************************************************************)
RECURSIVE SkipSeparators(_, _)
SkipSeparators(s, i) ==
    IF i <= Len(s) /\ At(s, i) \in {" ", ","} THEN SkipSeparators(s, i + 1) ELSE i

TripletAt(s, i) ==
    LET a == SkipBlanks(s, i + 2)
        b == IF a <= Len(s) /\ At(s, a) = "(" THEN SkipBlanks(s, a + 1) ELSE a
        n1 == Call("NumberAt", <<s, b>>)
        c == SkipSeparators(s, n1.end)
        n2 == Call("NumberAt", <<s, c>>)
        d == SkipSeparators(s, n2.end)
        n3 == Call("NumberAt", <<s, d>>)
    IN  IF /\ i + 1 <= Len(s)
           /\ SubSeq(s, i, i + 1) \in {"at", "to"}
           /\ n1.ok /\ c > n1.end /\ n2.ok /\ d > n2.end /\ n3.ok
        THEN [ok |-> TRUE, val |-> <<n1.val, n2.val, n3.val>>]
        ELSE [ok |-> FALSE, val |-> <<>>]

RECURSIVE TripletFrom(_, _)
TripletFrom(s, i) ==
    IF i > Len(s) THEN [ok |-> FALSE, val |-> <<>>]
    ELSE IF Call("TripletAt", <<s, i>>).ok THEN Call("TripletAt", <<s, i>>) ELSE TripletFrom(s, i + 1)

_extract_position_triplet(text) == TripletFrom(text, 1)

(***************************************************************************)
(* Colors.                                                                 *)
(***************************************************************************)
RECURSIVE ByLengthFrom(_, _)
ByLengthFrom(pairs, n) ==
    IF n = 0 THEN <<>>
    ELSE SelectSeq(pairs, LAMBDA p : Len(p[1]) = n) \o ByLengthFrom(pairs, n - 1)

\* sorted(COLOR_KEYWORDS.items(), key=lambda kv: -len(kv[0])): longest first, stable
SortedColors == ByLengthFrom(COLOR_KEYWORDS, 10)

RECURSIVE FirstColorFrom(_, _)
FirstColorFrom(lowered, i) ==
    IF i > Len(SortedColors) THEN ""
    ELSE IF Contains(lowered, SortedColors[i][1]) THEN SortedColors[i][2]
    ELSE FirstColorFrom(lowered, i + 1)

\* the hex of the longest color name in the text, "" for None
_color_from_text(text) == FirstColorFrom(Lower(text), 1)

\* \bkey\b matches s at i
WordAt(s, key, i) ==
    /\ i + Len(key) - 1 <= Len(s)
    /\ SubSeq(s, i, i + Len(key) - 1) = key
    /\ (i = 1 \/ At(s, i - 1) \notin WordChars)
    /\ (i + Len(key) > Len(s) \/ At(s, i + Len(key)) \notin WordChars)

\* the matches of one key, left to right, skipping spans already used:
\* [used |-> set of indices, found |-> sequence of <<start, hex>>]
RECURSIVE KeyMentions(_, _, _, _, _)
KeyMentions(s, key, hex, i, used) ==
    IF i > Len(s) THEN [used |-> used, found |-> <<>>]
    ELSE IF WordAt(s, key, i)
    THEN LET span == i..(i + Len(key) - 1)
         IN  IF span \cap used # {}
             THEN KeyMentions(s, key, hex, i + Len(key), used)
             ELSE LET rest == KeyMentions(s, key, hex, i + Len(key), used \cup span)
                  IN  [used |-> rest.used, found |-> <<(<<i, hex>>)>> \o rest.found]
    ELSE KeyMentions(s, key, hex, i + 1, used)

RECURSIVE AllMentions(_, _, _)
AllMentions(s, k, used) ==
    IF k > Len(SortedColors) THEN <<>>
    ELSE LET m == KeyMentions(s, SortedColors[k][1], SortedColors[k][2], 1, used)
         IN  m.found \o AllMentions(s, k + 1, m.used)

\* mentions.sort(key=start): starts are distinct, so order by start
RECURSIVE SortByStart(_)
SortByStart(ms) ==
    IF ms = <<>> THEN <<>>
    ELSE LET lo == CHOOSE i \in 1..Len(ms) : \A j \in 1..Len(ms) : ms[i][1] <= ms[j][1]
         IN  <<ms[lo]>> \o SortByStart(SubSeq(ms, 1, lo - 1) \o SubSeq(ms, lo + 1, Len(ms)))

\* the sequence of <<start, hex>> of the color names of the text, by position
_color_mentions(text) == SortByStart(AllMentions(Lower(text), 1, {}))

_colors_in_text(text) == {Call("_color_mentions", <<text>>)[i][2] : i \in 1..Len(Call("_color_mentions", <<text>>))}

(***************************************************************************)
(* Types and intents.                                                      *)
(***************************************************************************)
\* TYPE_SYNONYMS.get(type_name, {type_name})
_match_type(type_name, text) ==
    IF type_name \in DOMAIN TYPE_SYNONYMS
    THEN ContainsAny(text, TYPE_SYNONYMS[type_name])
    ELSE Contains(text, type_name)

_detect_object_type(text) ==
    LET lowered == Lower(text)
    IN  IF Call("_match_type", <<"cylinder", lowered>>) THEN "cylinder"
        ELSE IF Call("_match_type", <<"sphere", lowered>>) THEN "sphere"
        ELSE IF Call("_match_type", <<"cone", lowered>>) THEN "cone"
        ELSE IF Call("_match_type", <<"torus", lowered>>) THEN "torus"
        ELSE IF Call("_match_type", <<"plane", lowered>>) THEN "plane"
        ELSE "box"

_is_add_intent(text) ==
    LET lowered == Lower(text)
    IN  ContainsAny(lowered, ADD_KEYWORDS) \/ ContainsAny(lowered, ADD_PHRASES)


(***************************************************************************)
(* The words of the removal and of the composite builders.                 *)
(***************************************************************************)
CLEAR_WORDS == {"clear", "reset", "start over"}
REMOVE_WORDS == {"remove", "delete", "drop"}

CAR_KEYWORDS == {"car", "vehicle", "automobile", "sedan", "suv", "coupe"}

\* the keywords of the part families between the car and the table, and of
\* the catalogue after the vase (keywords containing another one are left
\* out); their builders are not modelled, and no text of the model has one
OTHER_COMPOSITE_KEYWORDS ==
    {"3-finger", "6 dof", "6dof", "air duct", "aluminum extruded profile", "android",
     "angle profile", "angle section", "arduino enclosure", "arm link", "autonomous cart",
     "axis housing", "axle hub", "ball valve", "battery holder", "bearing", "belt drive",
     "belt tensioner", "bevel", "biped robot", "bolt", "cable clip", "cable harness",
     "cable management bracket", "cable protector", "cam follower", "camera housing", "camshaft",
     "caster wheel", "centrifugal pump", "chain drive", "chain tensioner", "clutch plate",
     "compressor rotor", "connecting rod", "conrod", "controller case", "controller enclosure",
     "cooling fin block", "coupling", "crankshaft", "cross slide", "cross-slide", "delivery robot",
     "delta robot", "differential", "dowel pin", "drill chuck", "drone", "end effector interface",
     "end mill", "engine block", "exploration robot", "extruded aluminum profile", "fan",
     "fastener set", "fixture", "flange", "flywheel", "gate valve", "gear", "geneva wheel",
     "gimbal", "gripper claw", "heat exchanger", "helical", "hexacopter", "humanoid", "i beam",
     "i-beam", "ibeam", "impeller", "imu case", "jig plate", "joint cover", "keyway", "l bracket",
     "l-bracket", "lead screw", "lidar", "linear guide rail", "locating pin", "machine base",
     "machine column", "manifold", "mecanum wheel", "milling vice", "milling vise",
     "motor mount plate", "mounting bracket", "nut", "omni wheel", "optical encoder housing",
     "parallel gripper", "pcb enclosure", "pdb case", "pipe joint", "piston", "pneumatic cylinder",
     "power distribution board case", "pressure valve", "propeller", "pulley", "quadcopter",
     "rack and pinion", "radiator fin", "raspberry pi mount", "retaining ring", "rivet",
     "robot arm", "robot base frame", "robot chassis", "robot head", "rocket", "rotary actuator",
     "rotary table", "rpi mount", "scara", "sealing ring", "sensor mount", "service robot",
     "servo motor housing", "shaft support", "shock absorber", "shuttle", "snap fit joint",
     "snap-fit", "spacecraft", "spacer", "spaceship", "splined shaft", "stepper motor bracket",
     "structural beam", "suction", "suspension", "tank robot", "three-finger", "toggle clamp",
     "tool changer", "tool holder", "toolpost", "track system", "tracked robot", "tracks",
     "turbine blade", "u-joint", "ultrasonic", "universal joint", "vacuum gripper",
     "valve assembly", "vent grill", "washer", "welded frame", "wheel hub motor", "wheeled robot",
     "wire routing clip", "workpiece clamp", "worm", "wrist joint"}

(***************************************************************************)
(* _extract_named_value(text, keywords): [ok, val].                        *)
(***************************************************************************)
\* (?:is|=|:|of|with|at|to)? in the regex's order of alternatives
Connectors == <<"is", "=", ":", "of", "with", "at", "to">>

\* -?\d*\.?\d+ at i
MinusNumberAt(s, i) ==
    IF i <= Len(s) /\ At(s, i) = "-"
    THEN LET u == Call("UnsignedAt", <<s, i + 1>>) IN [ok |-> u.ok, end |-> u.end, val |-> 0 - u.val]
    ELSE Call("UnsignedAt", <<s, i>>)

\* \s*(?:is|=|:|of|with|at|to)?\s*(-?\d*\.?\d+) at i
RECURSIVE ValueAfter(_, _, _)
ValueAfter(s, i, c) ==
    LET b == SkipBlanks(s, i)
    IN  IF c > Len(Connectors) THEN Call("MinusNumberAt", <<s, b>>)
        ELSE LET w == Connectors[c]
                 with == IF b + Len(w) - 1 <= Len(s) /\ SubSeq(s, b, b + Len(w) - 1) = w
                         THEN Call("MinusNumberAt", <<s, SkipBlanks(s, b + Len(w))>>)
                         ELSE [ok |-> FALSE, end |-> i, val |-> 0]
             IN  IF with.ok THEN with ELSE ValueAfter(s, i, c + 1)

\* the leftmost match of \bkw\b\s*(connector)?\s*(number)
RECURSIVE FollowingValue(_, _, _)
FollowingValue(s, kw, i) ==
    IF i > Len(s) THEN [ok |-> FALSE, val |-> 0]
    ELSE IF WordAt(s, kw, i) /\ Call("ValueAfter", <<s, i + Len(kw), 1>>).ok
    THEN [ok |-> TRUE, val |-> Call("ValueAfter", <<s, i + Len(kw), 1>>).val]
    ELSE FollowingValue(s, kw, i + 1)

\* \s*(?:units?\s*)?kw\b at i
KeywordAfterNumber(s, kw, i) ==
    LET b == SkipBlanks(s, i)
        endsWord(j) == j > Len(s) \/ At(s, j) \notin WordChars
        plain(j) == j + Len(kw) - 1 <= Len(s) /\ SubSeq(s, j, j + Len(kw) - 1) = kw /\ endsWord(j + Len(kw))
        unit(n) == b + n - 1 <= Len(s) /\ SubSeq(s, b, b + n - 1) = SubSeq("units", 1, n)
                   /\ plain(SkipBlanks(s, b + n))
    IN  unit(5) \/ unit(4) \/ plain(b)

\* ([a-z]+)\s*$ on s[1..n]: the word that ends the prefix, "" if none
PreviousWord(s, n) ==
    LET RECURSIVE back(_, _)
        back(j, chars) == IF j >= 1 /\ At(s, j) \in chars THEN back(j - 1, chars) ELSE j
        e == back(n, {" "})
        b == back(e, LowerLetters)
    IN  SubSeq(s, b + 1, e)

\* the leftmost match of (number)\s*(?:units?\s*)?kw\b, unless a dimension word precedes it
RECURSIVE PrecedingValue(_, _, _)
PrecedingValue(s, kw, i) ==
    IF i > Len(s) THEN [ok |-> FALSE, val |-> 0]
    ELSE LET n == Call("NumberAt", <<s, i>>)
         IN  IF n.ok /\ KeywordAfterNumber(s, kw, n.end)
             THEN [ok |-> PreviousWord(s, i - 1) \notin DIMENSION_KEYWORDS, val |-> n.val]
             ELSE PrecedingValue(s, kw, i + 1)

RECURSIVE NamedFrom(_, _, _)
NamedFrom(text, keywords, k) ==
    IF k > Len(keywords) THEN [ok |-> FALSE, val |-> 0]
    ELSE LET preceding == Call("PrecedingValue", <<text, keywords[k], 1>>)
             following == FollowingValue(text, keywords[k], 1)
         IN  IF preceding.ok THEN preceding
             ELSE IF following.ok THEN following
             ELSE NamedFrom(text, keywords, k + 1)

_extract_named_value(text, keywords) == NamedFrom(text, keywords, 1)

\* _extract_named_value(...) or default: 0 counts as none
NamedOr(text, keywords, default) ==
    LET n == Call("_extract_named_value", <<text, keywords>>)
    IN  IF n.ok /\ n.val # 0 THEN n.val ELSE default

(***************************************************************************)
(* _default_params_for_type(obj_type, text, numbers): a params map.        *)
(***************************************************************************)
EmptyMap == [x \in {} |-> 0]

\* m with key set to val (params[key] = val)
Put(m, key, val) == [x \in (DOMAIN m) \cup {key} |-> IF x = key THEN val ELSE m[x]]

\* available.remove(value): the first occurrence goes, if there is one
RemoveFirst(seq, value) ==
    IF \E i \in 1..Len(seq) : seq[i] = value
    THEN LET at == CHOOSE i \in 1..Len(seq) : seq[i] = value /\ \A j \in 1..(i - 1) : seq[j] # value
         IN  SubSeq(seq, 1, at - 1) \o SubSeq(seq, at + 1, Len(seq))
    ELSE seq

\* param_value(keywords, default) with the pool of numbers left: [val, available]
param_value(text, keywords, default, available) ==
    LET named == Call("_extract_named_value", <<text, keywords>>)
    IN  IF named.ok THEN [val |-> named.val, available |-> RemoveFirst(available, named.val)]
        ELSE IF available # <<>> THEN [val |-> available[1], available |-> Tail(available)]
        ELSE [val |-> default, available |-> available]

_default_params_for_type(obj_type, text, numbers) ==
    CASE obj_type = "box" ->
           LET width == Call("param_value", <<text, <<"width", "wide">>, 10 * F, numbers>>)
               depth == Call("param_value", <<text, <<"depth", "deep", "length", "long">>, width.val, width.available>>)
               height == Call("param_value", <<text, <<"height", "tall">>, width.val, depth.available>>)
           IN  [width |-> width.val, depth |-> depth.val, height |-> height.val]
      [] obj_type = "cylinder" ->
           LET radius == Call("param_value", <<text, <<"radius", "rad", "diameter">>, 5 * F, numbers>>)
               depth == Call("param_value", <<text, <<"depth", "height">>, 10 * F, radius.available>>)
           IN  [radius |-> radius.val, depth |-> depth.val]
      [] obj_type = "sphere" ->
           [radius |-> Call("param_value", <<text, <<"radius", "rad", "size">>, 5 * F, numbers>>).val]
      [] obj_type = "cone" ->
           LET radius == Call("param_value", <<text, <<"radius", "base">>, 5 * F, numbers>>)
               height == Call("param_value", <<text, <<"height">>, 10 * F, radius.available>>)
           IN  [radius |-> radius.val, height |-> height.val]
      [] obj_type = "torus" ->
           LET radius == Call("param_value", <<text, <<"radius", "major">>, 5 * F, numbers>>)
               tube == Call("param_value", <<text, <<"tube", "minor">>, (3 * F) \div 2, radius.available>>)
           IN  [radius |-> radius.val, tube |-> tube.val]
      [] obj_type = "plane" ->
           [size |-> Call("param_value", <<text, <<"size", "width", "length">>, 10 * F, numbers>>).val]
      [] obj_type = "assembly" ->
           IF ContainsAny(Lower(text), {"bicycle", "bike"})
           THEN [template |-> "bicycle_basic",
                 wheelRadius |-> NamedOr(text, <<"wheel radius", "radius">>, 3 * F),
                 tireThickness |-> NamedOr(text, <<"tire", "thickness">>, (4 * F) \div 10),
                 wheelbase |-> NamedOr(text, <<"wheelbase", "length">>, 8 * F),
                 frameHeight |-> NamedOr(text, <<"height">>, 4 * F),
                 frameColor |-> IF Call("_color_from_text", <<text>>) # ""
                                THEN Call("_color_from_text", <<text>>)
                                ELSE "#b9c6ff"]
           ELSE [template |-> "robot_hand",
                 fingerCount |-> (NamedOr(text, <<"fingers", "finger">>, 5 * F) \div F) * F,
                 palmWidth |-> NamedOr(text, <<"palm width", "width">>, 8 * F),
                 palmDepth |-> NamedOr(text, <<"palm depth", "depth">>, 2 * F),
                 palmHeight |-> NamedOr(text, <<"palm height", "height">>, 10 * F),
                 fingerLength |-> NamedOr(text, <<"finger length">>, 8 * F)]
      [] OTHER -> EmptyMap

\* numbers without the first occurrence of each of values[i..]
RECURSIVE WithoutValues(_, _, _)
WithoutValues(numbers, values, i) ==
    IF i > Len(values) THEN numbers
    ELSE WithoutValues(RemoveFirst(numbers, values[i]), values, i + 1)

(***************************************************************************)
(* The URLs of a text.                                                     *)
(***************************************************************************)
\* the smallest index >= i of s holding a character of chars, or Len(s) + 1
RECURSIVE FirstOf(_, _, _)
FirstOf(s, chars, i) ==
    IF i > Len(s) \/ At(s, i) \in chars THEN i ELSE FirstOf(s, chars, i + 1)

\* the largest index of s holding c, or 0
RECURSIVE LastIndex(_, _, _)
LastIndex(s, c, i) == IF i = 0 \/ At(s, i) = c THEN i ELSE LastIndex(s, c, i - 1)

SchemeAt(s, i) ==
    IF i + 6 <= Len(s) /\ SubSeq(s, i, i + 6) = "http://" THEN 7
    ELSE IF i + 7 <= Len(s) /\ SubSeq(s, i, i + 7) = "https://" THEN 8
    ELSE 0

\* re.findall(r"https?://\S+", s) from index i on
RECURSIVE UrlsFrom(_, _)
UrlsFrom(s, i) ==
    IF i > Len(s) THEN <<>>
    ELSE LET n == SchemeAt(s, i)
             end == FirstOf(s, {" "}, i + n)
         IN  IF n > 0 /\ end > i + n
             THEN <<SubSeq(s, i, end - 1)>> \o UrlsFrom(s, end)
             ELSE UrlsFrom(s, i + 1)

\* urllib.parse.urlparse(url).path
UrlPath(url) ==
    LET rest == SubSeq(url, SchemeAt(url, 1) + 1, Len(url))
        tail == SubSeq(rest, FirstOf(rest, {"/", "?", "#"}, 1), Len(rest))
        nofrag == SubSeq(tail, 1, FirstOf(tail, {"#"}, 1) - 1)
        noquery == SubSeq(nofrag, 1, FirstOf(nofrag, {"?"}, 1) - 1)
        slash == LastIndex(noquery, "/", Len(noquery))
    IN  IF slash = 0 THEN noquery
        ELSE SubSeq(noquery, 1, FirstOf(noquery, {";"}, slash) - 1)

\* parsed.path.split(".")[-1].lower() if "." in parsed.path else ""
UrlExtension(url) ==
    LET path == Call("UrlPath", <<url>>)
        dot == LastIndex(path, ".", Len(path))
    IN  IF dot = 0 THEN "" ELSE Lower(SubSeq(path, dot + 1, Len(path)))

EXTERNAL_FORMATS == {"gltf", "glb", "obj", "fbx", "stl"}

(***************************************************************************)
(* The texts of the model, and the values of the text functions on them,   *)
(* computed once.  Has, Lowered, Numbers and the other operators of this   *)
(* section give the value of the function they name for every text; for a  *)
(* text of the model they read it from these tables.                       *)
(***************************************************************************)
ADD_TEXT == "add a red box"

Utterances ==
    {ADD_TEXT, "make it blue", "create a car", "clear the scene", "remove box2",
     "duplicate the box", "replace the box with a sphere"}

\* utterances that clone: plainly, with a color, with a move
CloneTexts == {"duplicate the box", "clone the box in green", "copy the box and move it up by 3"}

\* every text a request of the model carries
\* what the mutators are given: colour edits, dimension edits, scale edits
ColorTexts == {"make the red box blue", "make it light blue", "paint it blue then navy"}
DimensionTexts == {"make it smaller", "set the width to 0", "set the height to -5", "scale down"}
ScaleTexts == {"scale to 0", "scale by -2", "scale by 0.8"}
MutatorTexts == ColorTexts \cup DimensionTexts \cup ScaleTexts

\* what _find_targets is asked about
FindTexts ==
    {"make the sphere and box2 bigger", "the last one", "move it",
     "paint the blue one then the red one", "add a cone", "the first and the red box"}
\* requests that name more than one stage of run_local, or one stage only
StageTexts ==
    {"copy the box and replace it with a sphere", "clone the box in green", "duplicate the box",
     "replace the box with a sphere", "replace the box with a green sphere",
     "replace the box with a box", "make the box green and add a sphere", "make it blue",
     "set width 5 height 3", "move the sphere up by 3", "move the box up by 3"}

Spoken == Utterances \cup CloneTexts \cup MutatorTexts \cup FindTexts \cup StageTexts

\* the texts as the code passes them on: as typed, lowered, normalized
Texts == Spoken \cup {Lower(t) : t \in Spoken} \cup {Call("_normalize", <<t>>) : t \in Spoken}

\* the first components of a sequence of pairs
Firsts(pairs) == {pairs[i][1] : i \in 1..Len(pairs)}

\* the words the code looks for in a text
Keywords ==
    UNION {TYPE_SYNONYMS[t] : t \in DOMAIN TYPE_SYNONYMS}
    \cup DOMAIN TYPE_SYNONYMS \cup Firsts(COLOR_KEYWORDS) \cup Firsts(ORDINAL_KEYWORDS)
    \cup Firsts(DIRECTION_KEYWORDS) \cup Firsts(ROTATION_AXIS_HINTS)
    \cup SCALE_UP_WORDS \cup SCALE_DOWN_WORDS \cup WIDTH_POSITIVE \cup WIDTH_NEGATIVE
    \cup HEIGHT_POSITIVE \cup HEIGHT_NEGATIVE \cup DEPTH_POSITIVE \cup DEPTH_NEGATIVE
    \cup DIMENSION_KEYWORDS \cup ADD_KEYWORDS \cup CLONE_KEYWORDS \cup REPLACE_KEYWORDS \cup ADD_PHRASES
    \cup MOVE_VERBS \cup ROTATE_VERBS \cup CLEAR_WORDS \cup REMOVE_WORDS \cup CAR_KEYWORDS
    \cup OTHER_COMPOSITE_KEYWORDS
    \cup {"width", "depth", "height", "radius", "tube", "scale", "by", "+=", "scale to", "set scale",
          "scale =", "scale at", "scale by", "hand", "finger", "table", "chair", "stool", "cup", "mug",
          "bowl", "vase"}

\* the pairs (text, word) with the word in the text
Found == {p \in Texts \X Keywords : Contains(p[1], p[2])}

\* k in s
Has(s, k) == IF s \in Texts /\ k \in Keywords THEN <<s, k>> \in Found ELSE Contains(s, k)

\* any(k in s for k in ks)
HasAny(s, ks) == \E k \in ks : Call("Has", <<s, k>>)

\* _match_type(type_name, text)
MatchesType(type_name, text) ==
    IF type_name \in DOMAIN TYPE_SYNONYMS
    THEN HasAny(text, TYPE_SYNONYMS[type_name])
    ELSE Call("Has", <<text, type_name>>)

\* the texts none of the unmodelled part families answers to
InScope == {t \in Utterances : ~ContainsAny(Lower(t), OTHER_COMPOSITE_KEYWORDS)}

\* numbers_for_dims of run_local: the numbers of the normalized text without
\* the values of its position hint
NumbersForDims(lowered) ==
    IF Call("_extract_position_triplet", <<lowered>>).ok
    THEN WithoutValues(Call("_extract_numbers", <<lowered>>), Call("_extract_position_triplet", <<lowered>>).val, 1)
    ELSE Call("_extract_numbers", <<lowered>>)

Analysis(t) ==
    [lower |-> Lower(t), normal |-> Call("_normalize", <<t>>), numbers |-> Call("_extract_numbers", <<t>>),
     triplet |-> Call("_extract_position_triplet", <<t>>), dims |-> NumbersForDims(Call("_normalize", <<t>>)),
     color |-> Call("_color_from_text", <<t>>), mentions |-> Call("_color_mentions", <<t>>),
     type |-> Call("_detect_object_type", <<t>>), add |-> Call("_is_add_intent", <<t>>), urls |-> UrlsFrom(t, 1)]

Known == {<<t, Analysis(t)>> : t \in Texts}

Of(t) == (CHOOSE p \in Known : p[1] = t)[2]

Lowered(s) == IF s \in Texts THEN Call("Of", <<s>>).lower ELSE Lower(s)
Normalized(text) == IF text \in Texts THEN Call("Of", <<text>>).normal ELSE Call("_normalize", <<text>>)
Numbers(text) == IF text \in Texts THEN Call("Of", <<text>>).numbers ELSE Call("_extract_numbers", <<text>>)
Triplet(text) == IF text \in Texts THEN Call("Of", <<text>>).triplet ELSE Call("_extract_position_triplet", <<text>>)
DimNumbers(lowered) == IF lowered \in Texts THEN Call("Of", <<lowered>>).dims ELSE NumbersForDims(lowered)
Color(text) == IF text \in Texts THEN Call("Of", <<text>>).color ELSE Call("_color_from_text", <<text>>)
Mentions(text) == IF text \in Texts THEN Call("Of", <<text>>).mentions ELSE Call("_color_mentions", <<text>>)
ObjectType(text) == IF text \in Texts THEN Call("Of", <<text>>).type ELSE Call("_detect_object_type", <<text>>)
AddIntent(text) == IF text \in Texts THEN Call("Of", <<text>>).add ELSE Call("_is_add_intent", <<text>>)
Urls(text) == IF text \in Texts THEN Call("Of", <<text>>).urls ELSE UrlsFrom(text, 1)

\* the default params of every type for every text, with its numbers_for_dims
KnownParams ==
    {<<<<ty, t>>, Call("_default_params_for_type", <<ty, t, NumbersForDims(Call("_normalize", <<t>>))>>)>> :
        ty \in DOMAIN TYPE_SYNONYMS, t \in Texts}

DefaultParams(obj_type, text, numbers) ==
    IF obj_type \in DOMAIN TYPE_SYNONYMS /\ text \in Texts /\ numbers = Call("Of", <<text>>).dims
    THEN (CHOOSE p \in KnownParams : p[1] = <<obj_type, text>>)[2]
    ELSE Call("_default_params_for_type", <<obj_type, text, numbers>>)

(***************************************************************************)
(* Values.  A scene value is [k, has, objects]: k = "dict" for a mapping   *)
(* (has: it has an "objects" key), "list" for a value that is no mapping,  *)
(* "none" for None.  An object value is [id, type, params, transform];     *)
(* params is [k, m] and transform is [k, v] with k = "dict", "none" (the   *)
(* key holds null) or "missing" (no such key); m maps parameter names to   *)
(* values, v maps "position", "rotation", "scale" to vectors.  An id or    *)
(* type of "" stands for a missing one (obj.get(key, "")).                 *)
(***************************************************************************)
Dict(m) == [k |-> "dict", m |-> m]
Missing == [k |-> "missing", m |-> EmptyMap]
Null == [k |-> "none", m |-> EmptyMap]
TDict(v) == [k |-> "dict", v |-> v]
TMissing == [k |-> "missing", v |-> EmptyMap]
TNull == [k |-> "none", v |-> EmptyMap]

SceneOf(objs) == [k |-> "dict", has |-> TRUE, objects |-> objs]
NoObjectsScene == [k |-> "dict", has |-> FALSE, objects |-> <<>>]
ListScene == [k |-> "list", has |-> FALSE, objects |-> <<>>]
NoneScene == [k |-> "none", has |-> FALSE, objects |-> <<>>]

\* _default_transform()
_default_transform ==
    [position |-> <<0, 0, 0>>, rotation |-> <<0, 0, 0>>, scale |-> <<F, F, F>>]

(***************************************************************************)
(* The heap.  A machine is [h, err]: h is the sequence of cells (an        *)
(* address is an index of h, 0 is None) and err says an exception was      *)
(* raised; nothing runs after that.  Cells:                                *)
(*   [k |-> "spec", kind, has, objects]   a scene dict (objects: a list)   *)
(*   [k |-> "list", items]                a list of object addresses       *)
(*   [k |-> "obj", id, type, params, transform]   params and transform are *)
(*        an address, 0 for a missing key, -1 for None                     *)
(*   [k |-> "params", m]   [k |-> "tr", v]                                 *)
(***************************************************************************)
NewMachine == [h |-> <<>>, err |-> FALSE]

Alloc(m, cell) == [m EXCEPT !.h = Append(@, cell)]
Top(m) == Len(m.h)
Raise(m) == [m EXCEPT !.err = TRUE]
Store(m, a, cell) == [m EXCEPT !.h[a] = cell]

AllocObj(m, ov) ==
    LET m1 == IF ov.params.k = "dict" THEN Alloc(m, [k |-> "params", m |-> ov.params.m]) ELSE m
        pa == IF ov.params.k = "dict" THEN Top(m1) ELSE IF ov.params.k = "none" THEN -1 ELSE 0
        m2 == IF ov.transform.k = "dict" THEN Alloc(m1, [k |-> "tr", v |-> ov.transform.v]) ELSE m1
        ta == IF ov.transform.k = "dict" THEN Top(m2) ELSE IF ov.transform.k = "none" THEN -1 ELSE 0
    IN  Alloc(m2, [k |-> "obj", id |-> ov.id, type |-> ov.type, params |-> pa, transform |-> ta])

\* the objects ovs[i..] allocated in order: [m, items]
RECURSIVE AllocObjs(_, _, _)
AllocObjs(m, ovs, i) ==
    IF i > Len(ovs) THEN [m |-> m, items |-> <<>>]
    ELSE LET m1 == AllocObj(m, ovs[i])
             rest == AllocObjs(m1, ovs, i + 1)
         IN  [m |-> rest.m, items |-> <<Top(m1)>> \o rest.items]

\* a scene value built in the heap: [m, a]
LoadScene(m, sv) ==
    IF sv.k = "none" THEN [m |-> m, a |-> 0]
    ELSE IF sv.k = "list"
    THEN LET m1 == Alloc(m, [k |-> "spec", kind |-> "list", has |-> FALSE, objects |-> 0])
         IN  [m |-> m1, a |-> Top(m1)]
    ELSE IF ~sv.has
    THEN LET m1 == Alloc(m, [k |-> "spec", kind |-> "dict", has |-> FALSE, objects |-> 0])
         IN  [m |-> m1, a |-> Top(m1)]
    ELSE LET objs == Call("AllocObjs", <<m, sv.objects, 1>>)
             m1 == Alloc(objs.m, [k |-> "list", items |-> objs.items])
             m2 == Alloc(m1, [k |-> "spec", kind |-> "dict", has |-> TRUE, objects |-> Top(m1)])
         IN  [m |-> m2, a |-> Top(m2)]

ReadParams(h, a) == IF a > 0 THEN Dict(h[a].m) ELSE IF a = 0 THEN Missing ELSE Null
ReadTransform(h, a) == IF a > 0 THEN TDict(h[a].v) ELSE IF a = 0 THEN TMissing ELSE TNull

ReadObj(h, a) ==
    [id |-> h[a].id, type |-> h[a].type,
     params |-> ReadParams(h, h[a].params), transform |-> ReadTransform(h, h[a].transform)]

ReadObjs(h, items) == [i \in 1..Len(items) |-> ReadObj(h, items[i])]

\* the value of the scene at address a
ReadScene(h, a) ==
    IF a = 0 THEN NoneScene
    ELSE IF h[a].kind = "list" THEN ListScene
    ELSE IF ~h[a].has THEN NoObjectsScene
    ELSE SceneOf(ReadObjs(h, h[h[a].objects].items))

\* spec.get("objects", []) as a sequence of object addresses (spec a dict)
ObjectsOf(h, a) == IF a # 0 /\ h[a].kind = "dict" /\ h[a].has THEN h[h[a].objects].items ELSE <<>>

\* bool(spec): None, {} and [] are false
Truthy(h, a) == a # 0 /\ h[a].kind = "dict" /\ h[a].has

\* the scene itself in place of a copy of it
CloneByReference(m, a) == [m |-> m, a |-> a]

\* copy.deepcopy(spec) if spec is not None else None: [m, a]
_clone_spec(m, a) == IF a = 0 THEN [m |-> m, a |-> 0] ELSE Call("LoadScene", <<m, ReadScene(m.h, a)>>)

(***************************************************************************)
(* _generate_id: base followed by the smallest n >= 1 such that no object  *)
(* of the scene has that id.                                               *)
(***************************************************************************)
ExistingIds(h, a) ==
    IF Truthy(h, a)
    THEN {h[ObjectsOf(h, a)[i]].id : i \in 1..Len(ObjectsOf(h, a))} \ {""}
    ELSE {}

RECURSIVE FreeIdFrom(_, _, _)
FreeIdFrom(base, used, index) ==
    IF (base \o ToString(index)) \in used THEN FreeIdFrom(base, used, index + 1)
    ELSE base \o ToString(index)

\* base followed by the number of objects plus one
IdByCount(base, h, a) == base \o ToString(Len(ObjectsOf(h, a)) + 1)

_generate_id(base, h, a) == FreeIdFrom(base, ExistingIds(h, a), 1)

(***************************************************************************)
(* _ensure_transform(obj): [m, t] with t the address of the transform.     *)
(***************************************************************************)
\* [float(vec[i]) if i < len(vec) else fill for i in range(3)]
Pad3(vec, fill) == [i \in 1..3 |-> IF i <= Len(vec) THEN vec[i] ELSE fill]

EnsureVector(v, key, fill) ==
    IF key \notin DOMAIN v THEN Put(v, key, <<fill, fill, fill>>)
    ELSE IF Len(v[key]) # 3 THEN Put(v, key, Pad3(v[key], fill))
    ELSE v

\* every vector, the scale too, filled with 0
EnsureZeroFilled(m, o) ==
    IF m.err THEN [m |-> m, t |-> 0]
    ELSE IF m.h[o].transform = -1 THEN [m |-> Raise(m), t |-> 0]
    ELSE LET m1 == IF m.h[o].transform = 0
                   THEN LET n == Alloc(m, [k |-> "tr", v |-> EmptyMap])
                        IN  Store(n, o, [n.h[o] EXCEPT !.transform = Top(n)])
                   ELSE m
             t == m1.h[o].transform
             v3 == EnsureVector(EnsureVector(EnsureVector(m1.h[t].v, "position", 0),
                                             "rotation", 0), "scale", 0)
         IN  [m |-> Store(m1, t, [k |-> "tr", v |-> v3]), t |-> t]

_ensure_transform(m, o) ==
    IF m.err THEN [m |-> m, t |-> 0]
    ELSE IF m.h[o].transform = -1 THEN [m |-> Raise(m), t |-> 0]
    ELSE LET m1 == IF m.h[o].transform = 0
                   THEN LET n == Alloc(m, [k |-> "tr", v |-> EmptyMap])
                        IN  Store(n, o, [n.h[o] EXCEPT !.transform = Top(n)])
                   ELSE m
             t == m1.h[o].transform
             v3 == EnsureVector(EnsureVector(EnsureVector(m1.h[t].v, "position", 0),
                                             "rotation", 0), "scale", F)
         IN  [m |-> Store(m1, t, [k |-> "tr", v |-> v3]), t |-> t]


(***************************************************************************)
(* _find_targets(spec, text, fallback): [m, targets]; targets are object   *)
(* addresses, best score first, equal scores in scene order.               *)
(***************************************************************************)
\* obj.get("params", {}).get("color", ""): "" when there is none
ColorOf(h, o) ==
    IF h[o].params > 0 /\ "color" \in DOMAIN h[h[o].params].m THEN h[h[o].params].m["color"] ELSE ""

\* the index of the first mention of hex among the mentions, 0 if none
FirstMentionIndex(mentions, hex) ==
    IF \E i \in 1..Len(mentions) : mentions[i][2] = hex
    THEN CHOOSE i \in 1..Len(mentions) :
            /\ mentions[i][2] = hex
            /\ \A j \in 1..(i - 1) : mentions[j][2] # hex
    ELSE 0

RECURSIVE OrdinalScore(_, _, _, _)
OrdinalScore(lowered, idx, n, k) ==
    IF k > Len(ORDINAL_KEYWORDS) THEN 0
    ELSE LET word == ORDINAL_KEYWORDS[k][1]
             ordinal_index == ORDINAL_KEYWORDS[k][2]
             target_index == IF ordinal_index >= 0 THEN ordinal_index ELSE n - 1
         IN  (IF Call("Has", <<lowered, word>>) /\ target_index = idx - 1 THEN 2 ELSE 0)
             + OrdinalScore(lowered, idx, n, k + 1)

\* the score of the idx-th object (idx from 1) of a scene of n objects
TargetScore(h, o, idx, n, lowered, mentions) ==
    LET obj_id == Call("Lowered", <<h[o].id>>)
        obj_type == Call("Lowered", <<h[o].type>>)
        obj_color == Call("Lowered", <<ColorOf(h, o)>>)
        order_idx == FirstMentionIndex(mentions, obj_color) - 1
    IN    (IF obj_id # "" /\ Call("Has", <<lowered, obj_id>>) THEN 5 ELSE 0)
        + (IF obj_type # "" /\ MatchesType(obj_type, lowered) THEN 3 ELSE 0)
        + (IF obj_color # "" /\ order_idx >= 0 THEN Max(1, 6 - Min(order_idx, 5)) ELSE 0)
        + OrdinalScore(lowered, idx, n, 1)

\* the highest score one object can get
TopScore == 5 + 3 + 6 + 2 * Len(ORDINAL_KEYWORDS)

\* the scores of the objects from the i-th on, in scene order
RECURSIVE Scores(_, _, _, _, _)
Scores(h, objects, lowered, mentions, i) ==
    IF i > Len(objects) THEN <<>>
    ELSE <<TargetScore(h, objects[i], i, Len(objects), lowered, mentions)>>
         \o Scores(h, objects, lowered, mentions, i + 1)

\* the objects from the i-th on whose score is n
RECURSIVE WithScore(_, _, _, _)
WithScore(objs, scores, n, i) ==
    IF i > Len(objs) THEN <<>>
    ELSE (IF scores[i] = n THEN <<objs[i]>> ELSE <<>>) \o WithScore(objs, scores, n, i + 1)

\* matches.sort(key=score, reverse=True): a stable sort of the objects that scored
RECURSIVE ByScoreFrom(_, _, _)
ByScoreFrom(objs, scores, n) ==
    IF n = 0 THEN <<>>
    ELSE WithScore(objs, scores, n, 1) \o ByScoreFrom(objs, scores, n - 1)

\* the unsorted matches: the objects that scored, in scene order
FindUnsorted(m, a, text, fallback) ==
    IF m.err THEN [m |-> m, targets |-> <<>>]
    ELSE IF ~Truthy(m.h, a) \/ ObjectsOf(m.h, a) = <<>> THEN [m |-> m, targets |-> <<>>]
    ELSE LET objects == ObjectsOf(m.h, a)
             scores == Call("Scores", <<m.h, objects, Call("Lowered", <<text>>), Mentions(text), 1>>)
             matches == SelectSeq(objects, LAMBDA o : \E i \in 1..Len(objects) : objects[i] = o /\ scores[i] > 0)
         IN  IF matches # <<>> THEN [m |-> m, targets |-> matches]
             ELSE IF fallback THEN [m |-> m, targets |-> <<objects[Len(objects)]>>]
             ELSE [m |-> m, targets |-> <<>>]

_find_targets(m, a, text, fallback) ==
    IF m.err THEN [m |-> m, targets |-> <<>>]
    ELSE IF ~Truthy(m.h, a) \/ ObjectsOf(m.h, a) = <<>> THEN [m |-> m, targets |-> <<>>]
    ELSE LET objects == ObjectsOf(m.h, a)
             lowered == Call("Lowered", <<text>>)
             mentions == Mentions(text)
             scores == Call("Scores", <<m.h, objects, lowered, mentions, 1>>)
             matches == ByScoreFrom(objects, scores, TopScore)
         IN  IF \E i \in 1..Len(objects) : m.h[objects[i]].params = -1
             THEN [m |-> Raise(m), targets |-> <<>>]
             ELSE IF matches # <<>> THEN [m |-> m, targets |-> matches]
             ELSE IF fallback THEN [m |-> m, targets |-> <<objects[Len(objects)]>>]
             ELSE [m |-> m, targets |-> <<>>]

(***************************************************************************)
(* Mutators.  Each takes the machine and the target addresses and returns  *)
(* [m, changed].                                                           *)
(***************************************************************************)
\* obj.setdefault("params", {}): [m, p]; a params of None is returned as it is
EnsureParams(m, o) ==
    IF m.h[o].params = 0
    THEN LET n == Alloc(m, [k |-> "params", m |-> EmptyMap])
         IN  [m |-> Store(n, o, [n.h[o] EXCEPT !.params = Top(n)]), p |-> Top(n)]
    ELSE [m |-> m, p |-> m.h[o].params]

RECURSIVE ColorLoop(_, _, _, _)
ColorLoop(m, targets, i, color) ==
    IF m.err \/ i > Len(targets) THEN [m |-> m, changed |-> FALSE]
    ELSE LET e == EnsureParams(m, targets[i])
         IN  IF e.p = -1 THEN [m |-> Raise(m), changed |-> FALSE]
             ELSE LET pm == e.m.h[e.p].m
                      differs == "color" \notin DOMAIN pm \/ pm["color"] # color
                      m1 == IF differs
                            THEN Store(e.m, e.p, [k |-> "params", m |-> Put(pm, "color", color)])
                            ELSE e.m
                      rest == ColorLoop(m1, targets, i + 1, color)
                  IN  [m |-> rest.m, changed |-> differs \/ rest.changed]

\* the first mention in place of the last
ColorByFirstMention(m, targets, text) ==
    LET mentions == Mentions(text)
    IN  IF m.err \/ mentions = <<>> THEN [m |-> m, changed |-> FALSE]
        ELSE ColorLoop(m, targets, 1, mentions[1][2])

_apply_color_change(m, targets, text) ==
    LET mentions == Mentions(text)
    IN  IF m.err \/ mentions = <<>> THEN [m |-> m, changed |-> FALSE]
        ELSE ColorLoop(m, targets, 1, mentions[Len(mentions)][2])

\* the smallest dimension the dimension mutator writes (0.001)
MinDimension == F \div 1000
\* the smallest scale component the mutators write (0.01)
MinScale == F \div 100
\* the grow and shrink factors (1.25, 0.8)
GrowFactor == (F * 5) \div 4
ShrinkFactor == (F * 4) \div 5

\* the new value written as it comes, with no floor
AdjustUnfloored(pm, key, numbers, up, down) ==
    IF key \notin DOMAIN pm THEN [pm |-> pm, changed |-> FALSE]
    ELSE IF numbers # <<>>
    THEN [pm |-> Put(pm, key, numbers[1]), changed |-> TRUE]
    ELSE IF up
    THEN [pm |-> Put(pm, key, Mul(pm[key], GrowFactor)), changed |-> TRUE]
    ELSE IF down
    THEN [pm |-> Put(pm, key, Mul(pm[key], ShrinkFactor)), changed |-> TRUE]
    ELSE [pm |-> pm, changed |-> FALSE]

\* _adjust_param on a params map: [pm, changed]
_adjust_param(pm, key, numbers, up, down) ==
    IF key \notin DOMAIN pm THEN [pm |-> pm, changed |-> FALSE]
    ELSE IF numbers # <<>>
    THEN [pm |-> Put(pm, key, Max(MinDimension, numbers[1])), changed |-> TRUE]
    ELSE IF up
    THEN [pm |-> Put(pm, key, Max(MinDimension, Mul(pm[key], GrowFactor))), changed |-> TRUE]
    ELSE IF down
    THEN [pm |-> Put(pm, key, Max(MinDimension, Mul(pm[key], ShrinkFactor))), changed |-> TRUE]
    ELSE [pm |-> pm, changed |-> FALSE]

\* the text's dimension vocabulary
DimensionFlags(lowered) ==
    [scale_up |-> HasAny(lowered, SCALE_UP_WORDS),
     scale_down |-> HasAny(lowered, SCALE_DOWN_WORDS),
     width_up |-> HasAny(lowered, WIDTH_POSITIVE),
     width_down |-> HasAny(lowered, WIDTH_NEGATIVE),
     height_up |-> HasAny(lowered, HEIGHT_POSITIVE),
     height_down |-> HasAny(lowered, HEIGHT_NEGATIVE),
     depth_up |-> HasAny(lowered, DEPTH_POSITIVE),
     depth_down |-> HasAny(lowered, DEPTH_NEGATIVE)]

\* two _adjust_param calls in a row on the same params
Adjust2(pm, k1, n1, u1, d1, k2, n2, u2, d2) ==
    LET a == Call("_adjust_param", <<pm, k1, n1, u1, d1>>)
        b == Call("_adjust_param", <<a.pm, k2, n2, u2, d2>>)
    IN  [pm |-> b.pm, changed |-> a.changed \/ b.changed]

\* the per-type branch of _apply_dimension_change on one params map
AdjustForType(pm, otype, lowered, numbers, f) ==
    LET when(c) == IF c THEN numbers ELSE <<>>
        none == [pm |-> pm, changed |-> FALSE]
    IN  CASE otype = "box" ->
               LET ab == Adjust2(pm,
                          "width", when(Call("Has", <<lowered, "width">>) \/ f.width_up \/ f.width_down),
                          f.width_up \/ f.scale_up, f.width_down \/ f.scale_down,
                          "depth", when(Call("Has", <<lowered, "depth">>) \/ f.depth_up \/ f.depth_down),
                          f.depth_up \/ f.scale_up, f.depth_down \/ f.scale_down)
                   c == Call("_adjust_param", <<ab.pm, "height",
                          when(Call("Has", <<lowered, "height">>) \/ f.height_up \/ f.height_down),
                          f.height_up \/ f.scale_up, f.height_down \/ f.scale_down>>)
               IN  [pm |-> c.pm, changed |-> ab.changed \/ c.changed]
          [] otype = "cylinder" ->
               Adjust2(pm,
                   "radius", when(Call("Has", <<lowered, "radius">>) \/ f.width_up \/ f.width_down),
                   f.width_up \/ f.scale_up, f.width_down \/ f.scale_down,
                   "depth", when(Call("Has", <<lowered, "depth">>) \/ f.height_up \/ f.height_down),
                   f.height_up \/ f.scale_up, f.height_down \/ f.scale_down)
          [] otype = "sphere" -> Call("_adjust_param", <<pm, "radius", numbers, f.scale_up, f.scale_down>>)
          [] otype = "cone" ->
               Adjust2(pm,
                   "radius", when(Call("Has", <<lowered, "radius">>) \/ f.width_up \/ f.width_down),
                   f.width_up \/ f.scale_up, f.width_down \/ f.scale_down,
                   "height", when(Call("Has", <<lowered, "height">>) \/ f.height_up \/ f.height_down),
                   f.height_up \/ f.scale_up, f.height_down \/ f.scale_down)
          [] otype \in {"torus", "torusknot"} ->
               Adjust2(pm,
                   "radius", when(Call("Has", <<lowered, "radius">>) \/ f.scale_up \/ f.scale_down),
                   f.scale_up, f.scale_down,
                   "tube", when(Call("Has", <<lowered, "tube">>) \/ f.width_up \/ f.width_down),
                   f.width_up \/ f.scale_up, f.width_down \/ f.scale_down)
          [] otype = "plane" -> Call("_adjust_param", <<pm, "size", numbers, f.scale_up, f.scale_down>>)
          [] OTHER -> none

\* transform["scale"] = [max(0.01, v * factor) for v in scale] on every target
RECURSIVE ScaleAllBy(_, _, _, _)
ScaleAllBy(m, targets, i, factor) ==
    IF m.err \/ i > Len(targets) THEN m
    ELSE LET e == Call("_ensure_transform", <<m, targets[i]>>)
         IN  IF e.m.err THEN e.m
             ELSE LET v == e.m.h[e.t].v
                      scaled == [j \in 1..3 |-> Max(MinScale, Mul(v["scale"][j], factor))]
                  IN  ScaleAllBy(Store(e.m, e.t, [k |-> "tr", v |-> Put(v, "scale", scaled)]),
                                 targets, i + 1, factor)

RECURSIVE DimensionLoop(_, _, _, _, _, _, _)
DimensionLoop(m, targets, i, lowered, numbers, f, changed) ==
    IF m.err \/ i > Len(targets) THEN [m |-> m, changed |-> changed /\ ~m.err]
    ELSE LET e == EnsureParams(m, targets[i])
         IN  IF e.p = -1 THEN [m |-> Raise(m), changed |-> FALSE]
             ELSE LET adj == Call("AdjustForType", <<e.m.h[e.p].m, e.m.h[targets[i]].type, lowered, numbers, f>>)
                      m1 == Store(e.m, e.p, [k |-> "params", m |-> adj.pm])
                      changed1 == changed \/ adj.changed
                      fallback == ~changed1 /\ (f.scale_up \/ f.scale_down) /\ Call("Has", <<lowered, "scale">>)
                      factor == IF numbers # <<>> THEN numbers[1]
                                ELSE IF f.scale_up THEN GrowFactor ELSE ShrinkFactor
                      m2 == IF fallback THEN Call("ScaleAllBy", <<m1, targets, 1, factor>>) ELSE m1
                  IN  DimensionLoop(m2, targets, i + 1, lowered, numbers, f, changed1 \/ fallback)

_apply_dimension_change(m, targets, text, numbers) ==
    IF m.err THEN [m |-> m, changed |-> FALSE]
    ELSE DimensionLoop(m, targets, 1, Call("Lowered", <<text>>), numbers,
                       DimensionFlags(Call("Lowered", <<text>>)), FALSE)


\* transform["position"] = pos on every target
RECURSIVE SetPositionAll(_, _, _, _)
SetPositionAll(m, targets, i, pos) ==
    IF m.err \/ i > Len(targets) THEN m
    ELSE LET e == Call("_ensure_transform", <<m, targets[i]>>)
         IN  IF e.m.err THEN e.m
             ELSE SetPositionAll(Store(e.m, e.t, [k |-> "tr", v |-> Put(e.m.h[e.t].v, "position", pos)]),
                                 targets, i + 1, pos)

\* the position after adding vector * delta for every direction keyword of the text
RECURSIVE Displace(_, _, _, _)
Displace(pos, lowered, delta, k) ==
    IF k > Len(DIRECTION_KEYWORDS) THEN pos
    ELSE LET vector == DIRECTION_KEYWORDS[k][2]
             moved == IF Call("Has", <<lowered, DIRECTION_KEYWORDS[k][1]>>)
                      THEN <<pos[1] + vector[1] * delta, pos[2] + vector[2] * delta,
                             pos[3] + vector[3] * delta>>
                      ELSE pos
         IN  Displace(moved, lowered, delta, k + 1)

RECURSIVE MoveLoop(_, _, _, _, _)
MoveLoop(m, targets, i, lowered, delta) ==
    IF m.err \/ i > Len(targets) THEN m
    ELSE LET e == Call("_ensure_transform", <<m, targets[i]>>)
         IN  IF e.m.err THEN e.m
             ELSE LET v == e.m.h[e.t].v
                      pos == Call("Displace", <<v["position"], lowered, delta, 1>>)
                  IN  MoveLoop(Store(e.m, e.t, [k |-> "tr", v |-> Put(v, "position", pos)]),
                               targets, i + 1, lowered, delta)

_apply_directional_move(m, targets, text, numbers) ==
    LET lowered == Call("Lowered", <<text>>)
        absolute == Triplet(lowered)
        delta == IF numbers # <<>> THEN numbers[1] ELSE F
        any_direction == \E k \in 1..Len(DIRECTION_KEYWORDS) : Call("Has", <<lowered, DIRECTION_KEYWORDS[k][1]>>)
    IN  IF m.err \/ ~HasAny(lowered, MOVE_VERBS) THEN [m |-> m, changed |-> FALSE]
        ELSE IF absolute.ok
        THEN LET m1 == SetPositionAll(m, targets, 1, absolute.val)
             IN  [m |-> m1, changed |-> targets # <<>> /\ ~m1.err]
        ELSE LET m1 == MoveLoop(m, targets, 1, lowered, delta)
             IN  [m |-> m1, changed |-> targets # <<>> /\ any_direction /\ ~m1.err]

\* math.radians(degrees), degrees in fixed point, to the nearest unit
Radians(degrees) == ((degrees \div 100) * 17453 + Half(F)) \div F

\* the axis of the first hint, in table order, that occurs in the text; default Y
RECURSIVE AxisFrom(_, _)
AxisFrom(lowered, k) ==
    IF k > Len(ROTATION_AXIS_HINTS) THEN 2
    ELSE IF Call("Has", <<lowered, ROTATION_AXIS_HINTS[k][1]>>) THEN ROTATION_AXIS_HINTS[k][2]
    ELSE AxisFrom(lowered, k + 1)

RECURSIVE RotateLoop(_, _, _, _, _, _)
RotateLoop(m, targets, i, axis_index, radians, additive) ==
    IF m.err \/ i > Len(targets) THEN m
    ELSE LET e == Call("_ensure_transform", <<m, targets[i]>>)
         IN  IF e.m.err THEN e.m
             ELSE LET v == e.m.h[e.t].v
                      rot == [v["rotation"] EXCEPT ![axis_index] = IF additive THEN @ + radians ELSE radians]
                  IN  RotateLoop(Store(e.m, e.t, [k |-> "tr", v |-> Put(v, "rotation", rot)]),
                                 targets, i + 1, axis_index, radians, additive)

_apply_rotation_change(m, targets, text, numbers) ==
    LET lowered == Call("Lowered", <<text>>)
        degrees == IF numbers # <<>> THEN numbers[1] ELSE 90 * F
        additive == Call("Has", <<lowered, "by">>) \/ Call("Has", <<lowered, "+=">>)
    IN  IF m.err \/ ~HasAny(lowered, ROTATE_VERBS) THEN [m |-> m, changed |-> FALSE]
        ELSE LET m1 == RotateLoop(m, targets, 1, AxisFrom(lowered, 1), Radians(degrees), additive)
             IN  [m |-> m1, changed |-> targets # <<>> /\ ~m1.err]

(***************************************************************************)
(* _apply_scale_change.  The patterns are                                  *)
(*   scale(?:\s+\w+){0,3}\s+CONN\s+([-+0-9.,\s]+)   CONN in to, at, by     *)
(*   set\s+scale\s+to\s+([-+0-9.,\s]+)     scale\s*=\s*([-+0-9.,\s]+)      *)
(***************************************************************************)
NumberChars == Digits \cup {"-", "+", ".", ",", " "}

RECURSIVE RunEnd(_, _, _)
RunEnd(s, i, chars) == IF i <= Len(s) /\ At(s, i) \in chars THEN RunEnd(s, i + 1, chars) ELSE i

\* \s+ then ([-+0-9.,\s]+) at i: the captured text, "" when there is no match
CaptureAt(s, i) ==
    LET j == RunEnd(s, i, NumberChars)
    IN  IF i <= Len(s) /\ At(s, i) = " " /\ j > i + 1 THEN SubSeq(s, i + 1, j - 1) ELSE ""

\* (?:\s+\w+){0,words} then \s+conn then the capture, at i; more words are tried first
RECURSIVE WordsThenCapture(_, _, _, _)
WordsThenCapture(s, i, conn, words) ==
    LET b == SkipBlanks(s, i)
        w == RunEnd(s, b, WordChars)
        more == IF words > 0 /\ b > i /\ w > b THEN WordsThenCapture(s, w, conn, words - 1) ELSE ""
        c == SkipBlanks(s, i)
        here == IF c > i /\ c + Len(conn) - 1 <= Len(s) /\ SubSeq(s, c, c + Len(conn) - 1) = conn
                THEN CaptureAt(s, c + Len(conn))
                ELSE ""
    IN  IF more # "" THEN more ELSE here

\* the capture of the leftmost match of scale(?:\s+\w+){0,3}\s+conn\s+(...)
RECURSIVE ScaleCapture(_, _, _)
ScaleCapture(s, conn, from) ==
    LET at == FindFrom(s, "scale", from)
    IN  IF at = 0 THEN ""
        ELSE IF WordsThenCapture(s, at + 5, conn, 3) # "" THEN WordsThenCapture(s, at + 5, conn, 3)
        ELSE ScaleCapture(s, conn, at + 1)

\* the capture of the leftmost match of set\s+scale\s+to\s+(...)
RECURSIVE SetScaleCapture(_, _)
SetScaleCapture(s, from) ==
    LET at == FindFrom(s, "set", from)
        b == SkipBlanks(s, at + 3)
        c == SkipBlanks(s, b + 5)
        ok == /\ b > at + 3 /\ b + 4 <= Len(s) /\ SubSeq(s, b, b + 4) = "scale"
              /\ c > b + 5 /\ c + 1 <= Len(s) /\ SubSeq(s, c, c + 1) = "to"
    IN  IF at = 0 THEN ""
        ELSE IF ok /\ CaptureAt(s, c + 2) # "" THEN CaptureAt(s, c + 2)
        ELSE SetScaleCapture(s, at + 1)

\* the capture of the leftmost match of scale\s*=\s*(...)
RECURSIVE ScaleEqualsCapture(_, _)
ScaleEqualsCapture(s, from) ==
    LET at == FindFrom(s, "scale", from)
        b == SkipBlanks(s, at + 5)
        j == RunEnd(s, b + 1, NumberChars)
        ok == b <= Len(s) /\ At(s, b) = "=" /\ j > b + 1
    IN  IF at = 0 THEN ""
        ELSE IF ok THEN SubSeq(s, b + 1, j - 1)
        ELSE ScaleEqualsCapture(s, at + 1)

\* the numbers of the first pattern, in order, whose capture holds any
FirstNumbers(captures) ==
    LET nums == [i \in 1..Len(captures) |-> Call("_extract_numbers", <<captures[i]>>)]
    IN  IF \E i \in 1..Len(nums) : nums[i] # <<>>
        THEN nums[CHOOSE i \in 1..Len(nums) : nums[i] # <<>> /\ \A j \in 1..(i - 1) : nums[j] = <<>>]
        ELSE <<>>

\* transform["scale"] = [max(0.01, v) for v in values] on every target
RECURSIVE SetScaleAll(_, _, _, _)
SetScaleAll(m, targets, i, values) ==
    IF m.err \/ i > Len(targets) THEN m
    ELSE LET e == Call("_ensure_transform", <<m, targets[i]>>)
         IN  IF e.m.err THEN e.m
             ELSE SetScaleAll(Store(e.m, e.t, [k |-> "tr", v |->
                                  Put(e.m.h[e.t].v, "scale", [j \in 1..3 |-> Max(MinScale, values[j])])]),
                              targets, i + 1, values)

_apply_scale_change(m, targets, text, numbers) ==
    LET lowered == Call("Lowered", <<text>>)
        found_explicit == FirstNumbers(<<Call("ScaleCapture", <<lowered, "to", 1>>),
                                         Call("SetScaleCapture", <<lowered, 1>>),
                                         Call("ScaleEqualsCapture", <<lowered, 1>>),
                                         Call("ScaleCapture", <<lowered, "at", 1>>)>>)
        found_factor == FirstNumbers(<<Call("ScaleCapture", <<lowered, "by", 1>>)>>)
        explicit_mentioned == found_explicit # <<>>
                              \/ HasAny(lowered, {"scale to", "set scale", "scale =", "scale at"})
        factor_mentioned == found_factor # <<>> \/ Call("Has", <<lowered, "scale by">>)
        explicit_numbers == IF found_explicit = <<>> /\ explicit_mentioned THEN numbers ELSE found_explicit
        factor_numbers == IF found_factor = <<>> /\ factor_mentioned THEN numbers ELSE found_factor
        values == IF Len(explicit_numbers) >= 3
                  THEN <<explicit_numbers[1], explicit_numbers[2], explicit_numbers[3]>>
                  ELSE <<explicit_numbers[1], explicit_numbers[1], explicit_numbers[1]>>
        m1 == IF explicit_numbers # <<>> THEN SetScaleAll(m, targets, 1, values) ELSE m
        m2 == IF factor_numbers # <<>> THEN Call("ScaleAllBy", <<m1, targets, 1, factor_numbers[1]>>) ELSE m1
    IN  IF m.err \/ ~Call("Has", <<lowered, "scale">>) THEN [m |-> m, changed |-> FALSE]
        ELSE [m |-> m2,
              changed |-> targets # <<>> /\ ~m2.err /\ (explicit_numbers # <<>> \/ factor_numbers # <<>>)]

\* a copy that shares the params and the transform of its original
DuplicateShared(m, target, a) ==
    LET m1 == Alloc(m, [m.h[target] EXCEPT
                           !.id = Call("_generate_id", <<IF m.h[target].type # "" THEN m.h[target].type ELSE "obj",
                                                         m.h, a>>)])
        o == Top(m1)
        e == Call("_ensure_transform", <<m1, o>>)
        v == e.m.h[e.t].v
        pos == <<v["position"][1] + 2 * F, v["position"][2], v["position"][3]>>
    IN  IF m.err THEN [m |-> m, o |-> 0]
        ELSE IF e.m.err THEN [m |-> e.m, o |-> 0]
        ELSE [m |-> Store(e.m, e.t, [k |-> "tr", v |-> Put(v, "position", pos)]), o |-> o]

\* _duplicate_object(target, spec): [m, o], o the address of the copy
_duplicate_object(m, target, a) ==
    LET m1 == AllocObj(m, [ReadObj(m.h, target) EXCEPT
                              !.id = Call("_generate_id", <<IF m.h[target].type # "" THEN m.h[target].type ELSE "obj",
                                                  m.h, a>>)])
        o == Top(m1)
        e == Call("_ensure_transform", <<m1, o>>)
        v == e.m.h[e.t].v
        pos == <<v["position"][1] + 2 * F, v["position"][2], v["position"][3]>>
    IN  IF m.err THEN [m |-> m, o |-> 0]
        ELSE IF e.m.err THEN [m |-> e.m, o |-> 0]
        ELSE [m |-> Store(e.m, e.t, [k |-> "tr", v |-> Put(v, "position", pos)]), o |-> o]


\* params with the color added when there is one
WithColor(pm, color) == IF color # "" THEN Put(pm, "color", color) ELSE pm

\* base_names.get(obj_type, "obj")
BaseName(obj_type) ==
    CASE obj_type = "box" -> "box" [] obj_type = "cylinder" -> "cyl" [] obj_type = "sphere" -> "sph"
      [] obj_type = "cone" -> "cone" [] obj_type = "torus" -> "torus" [] obj_type = "plane" -> "plane"
      [] obj_type = "external_model" -> "model" [] obj_type = "assembly" -> "asm" [] OTHER -> "obj"

\* _build_new_object(text, spec, numbers): the value of the new object
_build_new_object(text, h, a, numbers) ==
    LET low == Call("Lowered", <<text>>)
        obj_type == IF \/ HasAny(low, {"robot hand", "robotic hand", "gripper", "end effector",
                                            "bicycle", "bike"})
                       \/ (/\ Call("Has", <<low, "mechanism">>)
                           /\ (Call("Has", <<low, "hand">>) \/ Call("Has", <<low, "finger">>)))
                    THEN "assembly"
                    ELSE ObjectType(text)
    IN  [id |-> Call("_generate_id", <<BaseName(obj_type), h, a>>),
         type |-> obj_type,
         params |-> Dict(WithColor(Call("DefaultParams", <<obj_type, text, numbers>>), Color(text))),
         transform |-> TDict(_default_transform)]


(***************************************************************************)
(* 64-bit unsigned arithmetic for the seeded fallback.  A 64-bit value is  *)
(* eight bytes, least significant first.                                   *)
(***************************************************************************)
Bit(a, n) == (a \div (2 ^ n)) % 2

XorNibble == [a \in 0..15 |-> [b \in 0..15 |->
                  ((Bit(a, 0) + Bit(b, 0)) % 2) + 2 * ((Bit(a, 1) + Bit(b, 1)) % 2)
                  + 4 * ((Bit(a, 2) + Bit(b, 2)) % 2) + 8 * ((Bit(a, 3) + Bit(b, 3)) % 2)]]

Xor8(a, b) == 16 * XorNibble[a \div 16][b \div 16] + XorNibble[a % 16][b % 16]

Xor64(x, y) == [i \in 1..8 |-> Xor8(x[i], y[i])]

ByteAt(x, i) == IF i >= 1 /\ i <= 8 THEN x[i] ELSE 0

\* x >> n
ShiftRight64(x, n) ==
    LET q == n \div 8
        r == n % 8
    IN  [i \in 1..8 |-> (ByteAt(x, i + q) \div (2 ^ r)) + (ByteAt(x, i + q + 1) % (2 ^ r)) * (2 ^ (8 - r))]

\* (x << n) & (2^64 - 1)
ShiftLeft64(x, n) ==
    LET q == n \div 8
        r == n % 8
    IN  [i \in 1..8 |-> ((ByteAt(x, i - q) * (2 ^ r)) % 256) + (ByteAt(x, i - q - 1) \div (2 ^ (8 - r)))]

\* the sum of x[i] * y[k + 1 - i] over i
RECURSIVE Column(_, _, _, _)
Column(x, y, k, i) ==
    IF i > k THEN 0 ELSE x[i] * y[k + 1 - i] + Column(x, y, k, i + 1)

RECURSIVE MulFrom(_, _, _, _)
MulFrom(x, y, k, carry) ==
    IF k > 8 THEN <<>>
    ELSE LET t == Column(x, y, k, 1) + carry
         IN  <<t % 256>> \o MulFrom(x, y, k + 1, t \div 256)

\* (x * y) & (2^64 - 1)
Mul64(x, y) == MulFrom(x, y, 1, 0)

RECURSIVE AddFrom(_, _, _, _)
AddFrom(x, y, k, carry) ==
    IF k > 8 THEN <<>>
    ELSE LET t == x[k] + y[k] + carry
         IN  <<t % 256>> \o AddFrom(x, y, k + 1, t \div 256)

\* (x + y) & (2^64 - 1)
Add64(x, y) == AddFrom(x, y, 1, 0)

\* a small natural number as a 64-bit value
U64(n) == [i \in 1..8 |-> IF i <= 4 THEN (n \div (256 ^ (i - 1))) % 256 ELSE 0]

\* 1469598103934665603 = 0x14650FB0739D0383, the offset the hash starts from
FnvOffset == <<131, 3, 157, 115, 176, 15, 101, 20>>
\* 1099511628211 = 0x100000001B3, the FNV-1a 64-bit prime
FnvPrime == <<179, 1, 0, 0, 0, 1, 0, 0>>
\* 2685821657736338717 = 0x2545F4914F6CDD1D, the xorshift64* multiplier
XorShiftMultiplier == <<29, 221, 108, 79, 145, 244, 69, 37>>

\* the printable ASCII characters from code 35 to code 91, and from code 97
AsciiLow == "#$%&'()*+,-./0123456789:;<=>?@ABCDEFGHIJKLMNOPQRSTUVWXYZ["
AsciiHigh == "abcdefghijklmnopqrstuvwxyz{|}~"

\* the code of an ASCII character (its one UTF-8 byte); the double quote, the
\* backslash and the backquote occur in no text of the model
Ord(c) ==
    IF c = " " THEN 32
    ELSE IF c = "!" THEN 33
    ELSE IF Contains(AsciiLow, c) THEN 34 + FindFrom(AsciiLow, c, 1)
    ELSE IF c = "]" THEN 93
    ELSE IF c = "^" THEN 94
    ELSE IF c = "_" THEN 95
    ELSE 96 + FindFrom(AsciiHigh, c, 1)

\* the loop of _seed_from_text from the i-th character on; val is a 64-bit value
RECURSIVE FnvFrom(_, _, _)
FnvFrom(text, i, val) ==
    IF Len(val) = 8 /\ i <= Len(text)
    THEN FnvFrom(text, i + 1, Mul64([val EXCEPT ![1] = Xor8(@, Ord(At(text, i)))], FnvPrime))
    ELSE val

\* _seed_from_text: the hash, or 1 when it is 0
_seed_from_text(text) ==
    LET val == FnvFrom(text, 1, FnvOffset)
    IN  IF val = U64(0) THEN U64(1) ELSE val

\* the 53 low bits of the xorshift64* of seed: _rand01 is this over 2^53
Rand53(seed) ==
    LET x1 == Xor64(seed, ShiftRight64(seed, 12))
        x2 == Xor64(x1, ShiftLeft64(x1, 25))
        x3 == Xor64(x2, ShiftRight64(x2, 27))
        x4 == Mul64(x3, XorShiftMultiplier)
    IN  [i \in 1..8 |-> IF i <= 6 THEN x4[i] ELSE IF i = 7 THEN x4[7] % 32 ELSE 0]

RECURSIVE TimesSmall(_, _, _, _)
TimesSmall(x, k, i, carry) ==
    IF i > 7 THEN <<carry>>
    ELSE LET t == x[i] * k + carry
         IN  <<t % 256>> \o TimesSmall(x, k, i + 1, t \div 256)

\* floor(_rand01(seed) * k) for a natural k below 2^22
_rand01(seed, k) ==
    LET p == TimesSmall(Call("Rand53", <<seed>>), k, 1, 0)
    IN  (p[7] + 256 * p[8]) \div 32

\* lo + span * _rand01(seed), in fixed point, to the nearest unit
RandIn(seed, lo, span) == lo + (Call("_rand01", <<seed, 2 * span>>) + 1) \div 2


(***************************************************************************)
(* _replace_object(target, spec, text, numbers): [m, changed].  The new    *)
(* object takes the place of the first object of the list equal to the     *)
(* target (list.index).                                                    *)
(***************************************************************************)
FirstEqual(h, items, target) ==
    CHOOSE i \in 1..Len(items) :
        /\ ReadObj(h, items[i]) = ReadObj(h, target)
        /\ \A j \in 1..(i - 1) : ReadObj(h, items[j]) # ReadObj(h, target)

\* the target taken out of the list and the replacement appended
ReplaceAtEnd(m, target, a, text, numbers) ==
    LET new_type == ObjectType(text)
        et == Call("_ensure_transform", <<m, target>>)
        m1 == et.m
        color == IF Color(text) # "" THEN Color(text) ELSE ColorOf(m1.h, target)
        pm == WithColor(Call("DefaultParams", <<new_type, text, numbers>>), color)
        id == IF m1.h[target].id # "" THEN m1.h[target].id ELSE Call("_generate_id", <<new_type, m1.h, a>>)
        m2 == AllocObj(m1, [id |-> id, type |-> new_type, params |-> Dict(pm),
                            transform |-> TDict(m1.h[et.t].v)])
        list == m2.h[a].objects
        items == m2.h[list].items
        index == FirstEqual(m2.h, items, target)
        moved == SubSeq(items, 1, index - 1) \o SubSeq(items, index + 1, Len(items)) \o <<Top(m2)>>
    IN  IF m.err \/ new_type = m.h[target].type THEN [m |-> m, changed |-> FALSE]
        ELSE IF m1.err THEN [m |-> m1, changed |-> FALSE]
        ELSE IF m1.h[target].params = -1 THEN [m |-> Raise(m1), changed |-> FALSE]
        ELSE [m |-> Store(m2, list, [m2.h[list] EXCEPT !.items = moved]), changed |-> TRUE]

_replace_object(m, target, a, text, numbers) ==
    LET new_type == ObjectType(text)
        et == Call("_ensure_transform", <<m, target>>)
        m1 == et.m
        color == IF Color(text) # "" THEN Color(text) ELSE ColorOf(m1.h, target)
        pm == WithColor(Call("DefaultParams", <<new_type, text, numbers>>), color)
        id == IF m1.h[target].id # "" THEN m1.h[target].id ELSE Call("_generate_id", <<new_type, m1.h, a>>)
        m2 == AllocObj(m1, [id |-> id, type |-> new_type, params |-> Dict(pm),
                            transform |-> TDict(m1.h[et.t].v)])
        list == m2.h[a].objects
        index == FirstEqual(m2.h, m2.h[list].items, target)
    IN  IF m.err \/ new_type = m.h[target].type THEN [m |-> m, changed |-> FALSE]
        ELSE IF m1.err THEN [m |-> m1, changed |-> FALSE]
        ELSE IF m1.h[target].params = -1 THEN [m |-> Raise(m1), changed |-> FALSE]
        ELSE [m |-> Store(m2, list, [m2.h[list] EXCEPT !.items[index] = Top(m2)]), changed |-> TRUE]

(***************************************************************************)
(* _build_external_model.                                                  *)
(***************************************************************************)
\* _build_external_model(url, text, spec): [ok, obj], ok false for None
_build_external_model(url, text, h, a) ==
    LET ext == UrlExtension(url)
    IN  [ok |-> ext \in EXTERNAL_FORMATS,
         obj |-> [id |-> Call("_generate_id", <<"model", h, a>>), type |-> "external_model",
                  params |-> Dict(WithColor([url |-> url, format |-> ext], Color(text))),
                  transform |-> TDict(_default_transform)]]

(***************************************************************************)
(* _build_composite_objects(text, spec, numbers): the sequence of the      *)
(* values of the parts.  Every id is generated from the scene as it was    *)
(* when the builder was called: the parts built so far are not in it.      *)
(***************************************************************************)
Zero3 == <<0, 0, 0>>

\* math.pi / 2.0
HalfPi == 15708

Part(id, type, pm, pos, rot, scale) ==
    [id |-> id, type |-> type, params |-> Dict(pm),
     transform |-> TDict([position |-> pos, rotation |-> rot, scale |-> scale])]

add_box(h, a, w, d, height, pos, rot, color) ==
    Part(Call("_generate_id", <<"box", h, a>>), "box",
         WithColor([width |-> w, depth |-> d, height |-> height], color), pos, rot, <<F, F, F>>)

add_cyl(h, a, radius, depth, pos, rot, color) ==
    Part(Call("_generate_id", <<"cyl", h, a>>), "cylinder",
         WithColor([radius |-> radius, depth |-> depth], color), pos, rot, <<F, F, F>>)

add_torus(h, a, radius, tube, pos, rot, color) ==
    Part(Call("_generate_id", <<"torus", h, a>>), "torus",
         WithColor([radius |-> radius, tube |-> tube], color), pos, rot, <<F, F, F>>)

\* the car with its last wheel on the place of the third
CarRepeatedWheel(h, a, numbers, color) ==
    LET length == IF Len(numbers) >= 3 THEN numbers[1] ELSE 8 * F
        width == IF Len(numbers) >= 3 THEN numbers[2] ELSE (32 * F) \div 10
        height == IF Len(numbers) >= 3 THEN numbers[3] ELSE (22 * F) \div 10
        body == Part(Call("_generate_id", <<"car_body", h, a>>), "box",
                     WithColor([width |-> width, depth |-> length, height |-> height], color),
                     <<0, 0, Half(height)>>, Zero3, <<F, F, F>>)
        wheel_radius == Max((4 * F) \div 10, Mul(Min(width, height), (34 * F) \div 100))
        wheel_tube == Max((12 * F) \div 100, Mul(wheel_radius, (2 * F) \div 10))
        x_offset == Half(width) - Mul(wheel_radius, (8 * F) \div 10)
        y_offset == Half(length) - Mul(wheel_radius, (8 * F) \div 10)
        Wheel(ox, oy) == Call("add_torus", <<h, a, wheel_radius, wheel_tube, <<ox, oy, wheel_radius>>,
                                   <<HalfPi, 0, 0>>, "#20262f">>)
    IN  <<body, Wheel(-x_offset, -y_offset), Wheel(-x_offset, y_offset),
          Wheel(x_offset, -y_offset), Wheel(x_offset, -y_offset)>>

\* the car: a body box and four wheel tori
Car(h, a, numbers, color) ==
    LET length == IF Len(numbers) >= 3 THEN numbers[1] ELSE 8 * F
        width == IF Len(numbers) >= 3 THEN numbers[2] ELSE (32 * F) \div 10
        height == IF Len(numbers) >= 3 THEN numbers[3] ELSE (22 * F) \div 10
        body == Part(Call("_generate_id", <<"car_body", h, a>>), "box",
                     WithColor([width |-> width, depth |-> length, height |-> height], color),
                     <<0, 0, Half(height)>>, Zero3, <<F, F, F>>)
        wheel_radius == Max((4 * F) \div 10, Mul(Min(width, height), (34 * F) \div 100))
        wheel_tube == Max((12 * F) \div 100, Mul(wheel_radius, (2 * F) \div 10))
        x_offset == Half(width) - Mul(wheel_radius, (8 * F) \div 10)
        y_offset == Half(length) - Mul(wheel_radius, (8 * F) \div 10)
        Wheel(ox, oy) == Call("add_torus", <<h, a, wheel_radius, wheel_tube, <<ox, oy, wheel_radius>>,
                                   <<HalfPi, 0, 0>>, "#20262f">>)
    IN  <<body, Wheel(-x_offset, -y_offset), Wheel(-x_offset, y_offset),
          Wheel(x_offset, -y_offset), Wheel(x_offset, y_offset)>>

\* a top and four legs at (sx * x, sy * y, z), sx and sy running over -1, 1
Legs(h, a, radius, depth, x, y, z) ==
    <<Call("add_cyl", <<h, a, radius, depth, <<-x, -y, z>>, Zero3, "">>),
      Call("add_cyl", <<h, a, radius, depth, <<-x, y, z>>, Zero3, "">>),
      Call("add_cyl", <<h, a, radius, depth, <<x, -y, z>>, Zero3, "">>),
      Call("add_cyl", <<h, a, radius, depth, <<x, y, z>>, Zero3, "">>)>>

Table(h, a) ==
    <<Call("add_box", <<h, a, 3 * F, (16 * F) \div 10, (15 * F) \div 100, <<0, 0, (8 * F) \div 10>>, Zero3, "">>)>>
    \o Legs(h, a, (7 * F) \div 100, (8 * F) \div 10, (135 * F) \div 100, (65 * F) \div 100, (4 * F) \div 10)

Chair(h, a) ==
    <<Call("add_box", <<h, a, (12 * F) \div 10, (12 * F) \div 10, F \div 10, <<0, 0, (55 * F) \div 100>>, Zero3, "">>)>>
    \o Legs(h, a, (6 * F) \div 100, (55 * F) \div 100, (5 * F) \div 10, (5 * F) \div 10, (275 * F) \div 1000)
    \o <<Call("add_box", <<h, a, (12 * F) \div 10, F \div 10, F,
                           <<0, -((55 * F) \div 100), (105 * F) \div 100>>, Zero3, "">>)>>

Cup(h, a) ==
    <<Call("add_cyl", <<h, a, (6 * F) \div 10, F, <<0, 0, (5 * F) \div 10>>, Zero3, "">>),
      Call("add_torus", <<h, a, (6 * F) \div 10, F \div 10, <<0, 0, (102 * F) \div 100>>, Zero3, "">>)>>

Bowl(h, a) ==
    <<Part(Call("_generate_id", <<"sph", h, a>>), "sphere", [radius |-> (8 * F) \div 10],
           <<0, 0, (8 * F) \div 10>>, Zero3, <<F, F, (6 * F) \div 10>>)>>

Vase(h, a) ==
    <<Call("add_cyl", <<h, a, (5 * F) \div 10, (16 * F) \div 10, <<0, 0, (8 * F) \div 10>>, Zero3, "">>),
      Call("add_torus", <<h, a, (5 * F) \div 10, (12 * F) \div 100, <<0, 0, (165 * F) \div 100>>, Zero3, "">>)>>

_build_composite_objects(text, h, a, numbers) ==
    LET low == Call("Lowered", <<text>>)
    IN  IF HasAny(low, CAR_KEYWORDS) THEN Car(h, a, numbers, Color(text))
        ELSE IF Call("Has", <<low, "table">>) THEN Table(h, a)
        ELSE IF HasAny(low, {"chair", "stool"}) THEN Chair(h, a)
        ELSE IF HasAny(low, {"cup", "mug"}) THEN Cup(h, a)
        ELSE IF Call("Has", <<low, "bowl">>) THEN Bowl(h, a)
        ELSE IF Call("Has", <<low, "vase">>) THEN Vase(h, a)
        ELSE <<>>


(***************************************************************************)
(* _apply_removal(low, spec): [m, a], a the address of the scene returned. *)
(***************************************************************************)
\* a fresh {"objects": []}: [m, a]
NewScene(m) ==
    LET m1 == Alloc(m, [k |-> "list", items |-> <<>>])
        m2 == Alloc(m1, [k |-> "spec", kind |-> "dict", has |-> TRUE, objects |-> Top(m1)])
    IN  [m |-> m2, a |-> Top(m2)]

\* the object at address o is named by the text: by its id, else by its type
Named(h, o, low) ==
    \/ (h[o].id # "" /\ Call("Has", <<low, Call("Lowered", <<h[o].id>>)>>))
    \/ (h[o].type # "" /\ Call("Has", <<low, h[o].type>>))

\* the index the removal loop pops: the first object named, else the last
RemovedIndex(h, objects, low) ==
    IF \E i \in 1..Len(objects) : Call("Named", <<h, objects[i], low>>)
    THEN CHOOSE i \in 1..Len(objects) :
            /\ Call("Named", <<h, objects[i], low>>)
            /\ \A j \in 1..(i - 1) : ~Call("Named", <<h, objects[j], low>>)
    ELSE Len(objects)

_apply_removal(m, low, a) ==
    IF m.err \/ a = 0 THEN [m |-> m, a |-> a]
    ELSE IF HasAny(low, CLEAR_WORDS) THEN NewScene(m)
    ELSE IF HasAny(low, REMOVE_WORDS)
    THEN IF m.h[a].kind # "dict" THEN [m |-> Raise(m), a |-> a]
         ELSE IF ObjectsOf(m.h, a) = <<>> THEN [m |-> m, a |-> a]
         ELSE LET objects == ObjectsOf(m.h, a)
                  idx == RemovedIndex(m.h, objects, low)
                  left == SubSeq(objects, 1, idx - 1) \o SubSeq(objects, idx + 1, Len(objects))
                  new_spec == Call("_clone_spec", <<m, a>>)
                  m1 == Alloc(new_spec.m, [k |-> "list", items |-> left])
              IN  [m |-> Store(m1, new_spec.a, [m1.h[new_spec.a] EXCEPT !.objects = Top(m1)]),
                   a |-> new_spec.a]
    ELSE [m |-> m, a |-> a]

(***************************************************************************)
(* run_local(user_text, existing_spec).                                    *)
(***************************************************************************)
\* spec["objects"].extend(items)
Extend(m, a, items) ==
    LET list == m.h[a].objects
    IN  Store(m, list, [m.h[list] EXCEPT !.items = @ \o items])

\* spec["objects"] = [o]
SetObjects(m, a, o) ==
    LET m1 == Alloc(m, [k |-> "list", items |-> <<o>>])
    IN  Store(m1, a, [m1.h[a] EXCEPT !.objects = Top(m1)])

\* the values ovs allocated and appended to the scene: [m, items]
AppendValues(m, a, ovs) ==
    LET r == Call("AllocObjs", <<m, ovs, 1>>)
    IN  [m |-> Extend(r.m, a, r.items), items |-> r.items]

\* spec None replaced by a fresh scene, then spec.setdefault("objects", []): [m, a]
WithObjects(m, a) ==
    IF m.err THEN [m |-> m, a |-> a]
    ELSE IF a = 0 THEN NewScene(m)
    ELSE IF m.h[a].kind # "dict" THEN [m |-> Raise(m), a |-> a]
    ELSE IF ~m.h[a].has
    THEN LET m1 == Alloc(m, [k |-> "list", items |-> <<>>])
         IN  [m |-> Store(m1, a, [m1.h[a] EXCEPT !.has = TRUE, !.objects = Top(m1)]), a |-> a]
    ELSE [m |-> m, a |-> a]

\* the loop over the urls from the i-th on: [m, done], done when one was loaded
RECURSIVE UrlLoop(_, _, _, _, _, _)
UrlLoop(m, a, urls, i, user_text, lowered) ==
    IF i > Len(urls) THEN [m |-> m, done |-> FALSE]
    ELSE LET external == Call("_build_external_model", <<urls[i], user_text, m.h, a>>)
             m1 == AllocObj(m, external.obj)
         IN  IF ~external.ok THEN UrlLoop(m, a, urls, i + 1, user_text, lowered)
             ELSE IF ObjectsOf(m.h, a) # <<>> /\ ~AddIntent(lowered)
             THEN [m |-> SetObjects(m1, a, Top(m1)), done |-> TRUE]
             ELSE [m |-> Extend(m1, a, <<Top(m1)>>), done |-> TRUE]

\* the duplicates of the targets from the i-th on: [m, clones]
RECURSIVE DuplicateLoop(_, _, _, _)
DuplicateLoop(m, targets, i, a) ==
    IF i > Len(targets) \/ m.err THEN [m |-> m, clones |-> <<>>]
    ELSE LET d == Call("_duplicate_object", <<m, targets[i], a>>)
             rest == DuplicateLoop(d.m, targets, i + 1, a)
         IN  [m |-> rest.m, clones |-> <<d.o>> \o rest.clones]

\* the five mutators in the order of the code: [m, changed]
Mutate(m, targets, lowered, dims, moves, turns, scales) ==
    LET c1 == Call("_apply_color_change", <<m, targets, lowered>>)
        c2 == Call("_apply_dimension_change", <<c1.m, targets, lowered, dims>>)
        c3 == Call("_apply_directional_move", <<c2.m, targets, lowered, moves>>)
        c4 == Call("_apply_rotation_change", <<c3.m, targets, lowered, turns>>)
        c5 == Call("_apply_scale_change", <<c4.m, targets, lowered, scales>>)
    IN  [m |-> c5.m, changed |-> c1.changed \/ c2.changed \/ c3.changed \/ c4.changed \/ c5.changed]

\* the three mutators applied to what was just added: [m, changed]
Place(m, targets, lowered, numbers) ==
    LET move_numbers == IF HasAny(lowered, MOVE_VERBS) THEN numbers ELSE <<>>
        rotation_numbers == IF HasAny(lowered, ROTATE_VERBS) THEN numbers ELSE <<>>
        c3 == Call("_apply_directional_move", <<m, targets, lowered, move_numbers>>)
        c4 == Call("_apply_rotation_change", <<c3.m, targets, lowered, rotation_numbers>>)
    IN  Call("_apply_scale_change", <<c4.m, targets, lowered, numbers>>)

\* the clone branch: the machine after it
CloneBranch(m, a, targets, lowered, numbers) ==
    LET d == DuplicateLoop(m, targets, 1, a)
    IN  IF d.m.err THEN d.m
        ELSE Call("Mutate", <<Extend(d.m, a, d.clones), d.clones, lowered, numbers, numbers, numbers, numbers>>).m

\* the add branch: the machine after it
AddBranch(m, a, user_text, lowered, numbers, numbers_for_dims) ==
    LET composite == Call("_build_composite_objects", <<user_text, m.h, a, numbers_for_dims>>)
        new_obj == Call("_build_new_object", <<user_text, m.h, a, numbers_for_dims>>)
        added == AppendValues(m, a, IF composite # <<>> THEN composite ELSE <<new_obj>>)
    IN  Place(added.m, added.items, lowered, numbers).m

\* the add branch taken also after an in-place edit that changed something
EditThenAdd(m, a, user_text, lowered, numbers, numbers_for_dims) ==
    LET first == Call("_find_targets", <<m, a, lowered, FALSE>>)
        found == IF first.targets = <<>> /\ ~first.m.err /\ ObjectsOf(m.h, a) # <<>> /\ ~AddIntent(lowered)
                 THEN Call("_find_targets", <<first.m, a, lowered, TRUE>>)
                 ELSE first
        targets == found.targets
        replaced == IF targets # <<>> /\ HasAny(lowered, REPLACE_KEYWORDS)
                    THEN Call("_replace_object", <<found.m, targets[1], a, lowered, numbers_for_dims>>)
                    ELSE [m |-> found.m, changed |-> FALSE]
        edited == IF targets # <<>>
                  THEN Call("Mutate", <<replaced.m, targets, lowered, numbers, numbers, numbers, numbers>>)
                  ELSE [m |-> replaced.m, changed |-> FALSE]
        add_intent == AddIntent(lowered) \/ ObjectsOf(edited.m.h, a) = <<>> \/ targets = <<>>
    IN  IF found.m.err THEN found.m
        ELSE IF targets # <<>> /\ HasAny(lowered, CLONE_KEYWORDS)
        THEN CloneBranch(found.m, a, targets, lowered, numbers)
        ELSE IF replaced.m.err \/ replaced.changed THEN replaced.m
        ELSE IF edited.m.err THEN edited.m
        ELSE IF add_intent THEN AddBranch(edited.m, a, user_text, lowered, numbers, numbers_for_dims)
        ELSE edited.m

\* the part of run_local after the urls: the machine after it
Edit(m, a, user_text, lowered, numbers, numbers_for_dims) ==
    LET first == Call("_find_targets", <<m, a, lowered, FALSE>>)
        found == IF first.targets = <<>> /\ ~first.m.err /\ ObjectsOf(m.h, a) # <<>> /\ ~AddIntent(lowered)
                 THEN Call("_find_targets", <<first.m, a, lowered, TRUE>>)
                 ELSE first
        targets == found.targets
        replaced == IF targets # <<>> /\ HasAny(lowered, REPLACE_KEYWORDS)
                    THEN Call("_replace_object", <<found.m, targets[1], a, lowered, numbers_for_dims>>)
                    ELSE [m |-> found.m, changed |-> FALSE]
        edited == IF targets # <<>>
                  THEN Call("Mutate", <<replaced.m, targets, lowered, numbers, numbers, numbers, numbers>>)
                  ELSE [m |-> replaced.m, changed |-> FALSE]
        add_intent == AddIntent(lowered) \/ ObjectsOf(edited.m.h, a) = <<>> \/ targets = <<>>
    IN  IF found.m.err THEN found.m
        ELSE IF targets # <<>> /\ HasAny(lowered, CLONE_KEYWORDS)
        THEN CloneBranch(found.m, a, targets, lowered, numbers)
        ELSE IF replaced.m.err \/ replaced.changed THEN replaced.m
        ELSE IF edited.m.err \/ edited.changed THEN edited.m
        ELSE IF add_intent THEN AddBranch(edited.m, a, user_text, lowered, numbers, numbers_for_dims)
        ELSE edited.m

\* run_local on the scene value sv: [m, caller, a], caller the address of the
\* scene that was passed in and a the address of the scene returned
run_local(user_text, sv) ==
    LET lowered == Normalized(user_text)
        numbers == Numbers(lowered)
        passed == Call("LoadScene", <<NewMachine, sv>>)
        copy == Call("_clone_spec", <<passed.m, passed.a>>)
        removed == Call("_apply_removal", <<copy.m, lowered, copy.a>>)
        spec == WithObjects(removed.m, removed.a)
        loaded == IF spec.m.err THEN [m |-> spec.m, done |-> TRUE]
                  ELSE Call("UrlLoop", <<spec.m, spec.a, Call("Urls", <<user_text>>), 1, user_text, lowered>>)
        numbers_for_dims == DimNumbers(lowered)
    IN  [m |-> IF loaded.done THEN loaded.m
               ELSE Edit(loaded.m, spec.a, user_text, lowered, numbers, numbers_for_dims),
         caller |-> passed.a, a |-> spec.a]

\* what the caller sees of the machine r that run_local ends in: whether it
\* raised, the scene returned, and the scene that was passed in as it is now
Seen(r) ==
    [raised |-> r.m.err,
     scene |-> IF r.m.err THEN NoneScene ELSE ReadScene(r.m.h, r.a),
     passed |-> ReadScene(r.m.h, r.caller)]

\* run_local as its caller sees it
RunLocal(user_text, sv) == Seen(Call("run_local", <<user_text, sv>>))


(***************************************************************************)
(* _generic_synthesis(text, spec): three to five primitives drawn from the *)
(* seed of the text.                                                       *)
(***************************************************************************)
\* _rand01(seed + i * k) scaled into lo .. lo + span
Draw(seed, i, k, lo, span) == RandIn(Add64(seed, U64(i * k)), lo, span)

\* the i-th primitive (i from 0)
Primitive(seed, i, h, a) ==
    LET shape_pick == Call("_rand01", <<Add64(seed, U64(i * 997)), F>>)
        x(k) == Draw(seed, i, k, 0 - (25 * F) \div 10, 5 * F)
        box_h == Draw(seed, i, 61, (8 * F) \div 10, 3 * F)
        cyl_depth == Draw(seed, i, 79, (15 * F) \div 10, (35 * F) \div 10)
    IN  IF shape_pick < (2 * F) \div 10
        THEN Part(Call("_generate_id", <<"sph", h, a>>), "sphere",
                  [radius |-> Draw(seed, i, 123, (8 * F) \div 10, (22 * F) \div 10)],
                  <<x(31), x(37), Draw(seed, i, 41, (6 * F) \div 10, 2 * F)>>, Zero3, <<F, F, F>>)
        ELSE IF shape_pick < (55 * F) \div 100
        THEN Part(Call("_generate_id", <<"box", h, a>>), "box",
                  [width |-> Draw(seed, i, 53, (12 * F) \div 10, 4 * F),
                   depth |-> Draw(seed, i, 59, F, 4 * F), height |-> box_h],
                  <<x(67), x(71), Half(box_h)>>, Zero3, <<F, F, F>>)
        ELSE IF shape_pick < (8 * F) \div 10
        THEN Part(Call("_generate_id", <<"cyl", h, a>>), "cylinder",
                  [radius |-> Draw(seed, i, 73, (6 * F) \div 10, (22 * F) \div 10), depth |-> cyl_depth],
                  <<x(83), x(89), Half(cyl_depth)>>, Zero3, <<F, F, F>>)
        ELSE Part(Call("_generate_id", <<"torus", h, a>>), "torus",
                  [radius |-> Draw(seed, i, 97, (9 * F) \div 10, (25 * F) \div 10),
                   tube |-> Draw(seed, i, 101, (2 * F) \div 10, (6 * F) \div 10)],
                  <<x(103), x(107), Draw(seed, i, 109, (8 * F) \div 10, 2 * F)>>,
                  <<Draw(seed, i, 113, 0, HalfPi), 0, 0>>, <<F, F, F>>)

\* the count without its base of 3
SynthesisFromNone(text, h, a) ==
    LET seed == Call("_seed_from_text", <<text>>)
        n == Call("_rand01", <<seed, 3>>)
    IN  [i \in 1..n |-> Primitive(seed, i - 1, h, a)]

_generic_synthesis(text, h, a) ==
    LET seed == Call("_seed_from_text", <<text>>)
        n == 3 + Call("_rand01", <<seed, 3>>)
    IN  [i \in 1..n |-> Primitive(seed, i - 1, h, a)]

(***************************************************************************)
(* build_spec(user_text, existing_spec_json).  existing is the scene the   *)
(* JSON text parses to (NoneScene for no text); gemini is what the         *)
(* generative service does: mode "off" when have_gemini() is false,        *)
(* "raises" when run_gemini raises, and "data" when it returns             *)
(* {"objects": gemini.objects}.                                            *)
(***************************************************************************)
\* the scene {"objects": []} the synthesis is given
BlankScene == NewScene(NewMachine)

\* len(objs) == 1 and str(objs[0].get("type", "")).lower() == "box"
SingleBox(objs) == Len(objs) = 1 /\ Call("Lowered", <<objs[1].type>>) = "box"

\* _build_composite_objects(user_text, {"objects": []}, numbers)
Composite(user_text) ==
    Call("_build_composite_objects", <<user_text, BlankScene.m.h, BlankScene.a, Numbers(Normalized(user_text))>>)

\* the composite, or the seeded primitives when there is none
Synthesis(user_text) ==
    IF Call("Composite", <<user_text>>) # <<>> THEN Call("Composite", <<user_text>>)
    ELSE Call("_generic_synthesis", <<user_text, BlankScene.m.h, BlankScene.a>>)

\* the synthesis of every text of the model, computed once
KnownSynthesis == {<<t, Synthesis(t)>> : t \in Utterances}

Synthesized(user_text) ==
    IF user_text \in Utterances
    THEN (CHOOSE p \in KnownSynthesis : p[1] = user_text)[2]
    ELSE Synthesis(user_text)

\* the local-only mode with the backstop for the empty result only
LocalOnlyKeepingBox(user_text, existing) ==
    LET local == RunLocal(user_text, existing)
    IN  IF local.raised THEN [raised |-> TRUE, scene |-> NoneScene]
        ELSE IF local.scene.objects = <<>>
        THEN [raised |-> FALSE, scene |-> SceneOf(Synthesized(user_text))]
        ELSE [raised |-> FALSE, scene |-> local.scene]

\* the local-only mode: [raised, scene]
LocalOnly(user_text, existing) ==
    LET local == RunLocal(user_text, existing)
    IN  IF local.raised THEN [raised |-> TRUE, scene |-> NoneScene]
        ELSE IF local.scene.objects = <<>> \/ SingleBox(local.scene.objects)
        THEN [raised |-> FALSE, scene |-> SceneOf(Synthesized(user_text))]
        ELSE [raised |-> FALSE, scene |-> local.scene]

\* bool(existing)
NonEmpty(existing) == existing.k = "dict" /\ existing.has

\* the post-processing of the data the service returned: [raised, scene]
PostProcess(user_text, existing, objs) ==
    LET composite == Call("Composite", <<user_text>>)
        edited == RunLocal(user_text, existing)
    IN  IF (objs = <<>> \/ SingleBox(objs)) /\ composite # <<>>
        THEN [raised |-> FALSE,
              scene |-> SceneOf(IF NonEmpty(existing) THEN existing.objects \o composite ELSE composite)]
        ELSE IF NonEmpty(existing) /\ objs = existing.objects /\ ~edited.raised
        THEN [raised |-> FALSE, scene |-> edited.scene]
        ELSE [raised |-> FALSE, scene |-> SceneOf(objs)]

\* run_gemini and the post-processing, inside the try: [raised, scene]
Attempt(user_text, existing, gemini) ==
    IF gemini.mode = "raises" THEN [raised |-> TRUE, scene |-> NoneScene]
    ELSE PostProcess(user_text, existing, gemini.objects)

\* build_spec without the except around the service
BuildSpecUncaught(user_text, existing, gemini) ==
    IF gemini.mode # "off"
    THEN Attempt(user_text, existing, gemini)
    ELSE LocalOnly(user_text, existing)

\* build_spec: [raised, scene]
build_spec(user_text, existing, gemini) ==
    IF gemini.mode # "off" /\ ~Attempt(user_text, existing, gemini).raised
    THEN Attempt(user_text, existing, gemini)
    ELSE LocalOnly(user_text, existing)

(***************************************************************************)
(* _find_targets as run_local calls it, on the scene value sv with the     *)
(* text normalized: [raised, scene], the scene holding the targets in the  *)
(* order they were returned.                                               *)
(***************************************************************************)
Targets(text, sv, fallback) ==
    LET passed == Call("LoadScene", <<NewMachine, sv>>)
        r == Call("_find_targets", <<passed.m, passed.a, Normalized(text), fallback>>)
    IN  [raised |-> r.m.err, scene |-> SceneOf(ReadObjs(r.m.h, r.targets))]

(***************************************************************************)
(* A mutator on its own: f applied with the text to all the objects of    *)
(* the scene value sv, as run_local applies it (the text normalized, the  *)
(* numbers those of the text): [raised, scene, changed].                  *)
(***************************************************************************)
RECURSIVE EnsureAll(_, _, _)
EnsureAll(m, targets, i) ==
    IF m.err \/ i > Len(targets) THEN m
    ELSE EnsureAll(Call("_ensure_transform", <<m, targets[i]>>).m, targets, i + 1)

MUTATORS == {"_apply_color_change", "_apply_dimension_change", "_apply_scale_change", "_ensure_transform"}

Applied(f, text, sv) ==
    LET passed == Call("LoadScene", <<NewMachine, sv>>)
        targets == ObjectsOf(passed.m.h, passed.a)
        lowered == Normalized(text)
        r == CASE f = "_apply_color_change" ->
                    Call("_apply_color_change", <<passed.m, targets, lowered>>)
               [] f = "_apply_dimension_change" ->
                    Call("_apply_dimension_change", <<passed.m, targets, lowered, Numbers(lowered)>>)
               [] f = "_apply_scale_change" ->
                    Call("_apply_scale_change", <<passed.m, targets, lowered, Numbers(lowered)>>)
               [] f = "_ensure_transform" ->
                    [m |-> EnsureAll(passed.m, targets, 1), changed |-> FALSE]
    IN  [raised |-> r.m.err, scene |-> ReadScene(r.m.h, passed.a), changed |-> r.changed]

(***************************************************************************)
(* The functions apply one another by name: Call(f, x) is f applied to    *)
(* the arguments x.                                                       *)
(***************************************************************************)
Call(f, x) ==
    CASE f = "_normalize" -> _normalize(x[1])
      [] f = "UnsignedAt" -> UnsignedAt(x[1], x[2])
      [] f = "NumberAt" -> NumberAt(x[1], x[2])
      [] f = "_extract_numbers" -> _extract_numbers(x[1])
      [] f = "TripletAt" -> TripletAt(x[1], x[2])
      [] f = "_extract_position_triplet" -> _extract_position_triplet(x[1])
      [] f = "_color_from_text" -> _color_from_text(x[1])
      [] f = "_color_mentions" -> _color_mentions(x[1])
      [] f = "_colors_in_text" -> _colors_in_text(x[1])
      [] f = "_match_type" -> _match_type(x[1], x[2])
      [] f = "_detect_object_type" -> _detect_object_type(x[1])
      [] f = "_is_add_intent" -> _is_add_intent(x[1])
      [] f = "MinusNumberAt" -> MinusNumberAt(x[1], x[2])
      [] f = "ValueAfter" -> ValueAfter(x[1], x[2], x[3])
      [] f = "PrecedingValue" -> PrecedingValue(x[1], x[2], x[3])
      [] f = "_extract_named_value" -> _extract_named_value(x[1], x[2])
      [] f = "param_value" -> param_value(x[1], x[2], x[3], x[4])
      [] f = "_default_params_for_type" -> _default_params_for_type(x[1], x[2], x[3])
      [] f = "UrlPath" -> UrlPath(x[1])
      [] f = "Has" -> Has(x[1], x[2])
      [] f = "Of" -> Of(x[1])
      [] f = "Lowered" -> Lowered(x[1])
      [] f = "Urls" -> Urls(x[1])
      [] f = "DefaultParams" -> DefaultParams(x[1], x[2], x[3])
      [] f = "AllocObjs" -> AllocObjs(x[1], x[2], x[3])
      [] f = "LoadScene" -> LoadScene(x[1], x[2])
      [] f = "_clone_spec" -> _clone_spec(x[1], x[2])
      [] f = "_generate_id" -> _generate_id(x[1], x[2], x[3])
      [] f = "_ensure_transform" -> _ensure_transform(x[1], x[2])
      [] f = "Scores" -> Scores(x[1], x[2], x[3], x[4], x[5])
      [] f = "_find_targets" -> _find_targets(x[1], x[2], x[3], x[4])
      [] f = "_apply_color_change" -> _apply_color_change(x[1], x[2], x[3])
      [] f = "_adjust_param" -> _adjust_param(x[1], x[2], x[3], x[4], x[5])
      [] f = "AdjustForType" -> AdjustForType(x[1], x[2], x[3], x[4], x[5])
      [] f = "ScaleAllBy" -> ScaleAllBy(x[1], x[2], x[3], x[4])
      [] f = "_apply_dimension_change" -> _apply_dimension_change(x[1], x[2], x[3], x[4])
      [] f = "Displace" -> Displace(x[1], x[2], x[3], x[4])
      [] f = "_apply_directional_move" -> _apply_directional_move(x[1], x[2], x[3], x[4])
      [] f = "_apply_rotation_change" -> _apply_rotation_change(x[1], x[2], x[3], x[4])
      [] f = "ScaleCapture" -> ScaleCapture(x[1], x[2], x[3])
      [] f = "SetScaleCapture" -> SetScaleCapture(x[1], x[2])
      [] f = "ScaleEqualsCapture" -> ScaleEqualsCapture(x[1], x[2])
      [] f = "_apply_scale_change" -> _apply_scale_change(x[1], x[2], x[3], x[4])
      [] f = "_duplicate_object" -> _duplicate_object(x[1], x[2], x[3])
      [] f = "_build_new_object" -> _build_new_object(x[1], x[2], x[3], x[4])
      [] f = "_seed_from_text" -> _seed_from_text(x[1])
      [] f = "Rand53" -> Rand53(x[1])
      [] f = "_rand01" -> _rand01(x[1], x[2])
      [] f = "_replace_object" -> _replace_object(x[1], x[2], x[3], x[4], x[5])
      [] f = "_build_external_model" -> _build_external_model(x[1], x[2], x[3], x[4])
      [] f = "add_box" -> add_box(x[1], x[2], x[3], x[4], x[5], x[6], x[7], x[8])
      [] f = "add_cyl" -> add_cyl(x[1], x[2], x[3], x[4], x[5], x[6], x[7])
      [] f = "add_torus" -> add_torus(x[1], x[2], x[3], x[4], x[5], x[6], x[7])
      [] f = "_build_composite_objects" -> _build_composite_objects(x[1], x[2], x[3], x[4])
      [] f = "Named" -> Named(x[1], x[2], x[3])
      [] f = "_apply_removal" -> _apply_removal(x[1], x[2], x[3])
      [] f = "UrlLoop" -> UrlLoop(x[1], x[2], x[3], x[4], x[5], x[6])
      [] f = "Mutate" -> Mutate(x[1], x[2], x[3], x[4], x[5], x[6], x[7])
      [] f = "run_local" -> run_local(x[1], x[2])
      [] f = "_generic_synthesis" -> _generic_synthesis(x[1], x[2], x[3])
      [] f = "Composite" -> Composite(x[1])
      [] f = "build_spec" -> build_spec(x[1], x[2], x[3])
      [] f = "Applied" -> Applied(x[1], x[2], x[3])
      [] f = "Targets" -> Targets(x[1], x[2], x[3])

(***************************************************************************)
(* The code history (undo_manager.py).  An entry is [code, description,    *)
(* timestamp]; a manager is [history, current_index, max_history] with     *)
(* history a sequence (Python index i is place i + 1).  Each method gives  *)
(* the manager it leaves and what it returns, NoEntry for None.            *)
(***************************************************************************)
\* CodeHistoryEntry(code, description) created at the time now
CodeHistoryEntry(code, description, now) ==
    [code |-> code, description |-> description, timestamp |-> now]

NoEntry == [code |-> "", description |-> "", timestamp |-> 0]
NoArg == [code |-> "", index |-> 0]

\* self.current_index > 0
can_undo(self) == self.current_index > 0

\* self.current_index < len(self.history) - 1
can_redo(self) == self.current_index < Len(self.history) - 1

get_current(self) ==
    IF self.current_index < 0 \/ self.current_index >= Len(self.history) THEN NoEntry
    ELSE self.history[self.current_index + 1]

\* the index advanced also when the oldest entry is dropped
PushAlwaysAdvancing(self, code, description, now) ==
    LET kept == IF self.current_index < Len(self.history) - 1
                THEN SubSeq(self.history, 1, self.current_index + 1)
                ELSE self.history
        added == Append(kept, CodeHistoryEntry(code, description, now))
    IN  IF Len(added) > self.max_history
        THEN [self EXCEPT !.history = Tail(added), !.current_index = @ + 1]
        ELSE [self EXCEPT !.history = added, !.current_index = @ + 1]

\* the redo entries kept
PushKeepingRedo(self, code, description, now) ==
    LET added == Append(self.history, CodeHistoryEntry(code, description, now))
    IN  IF Len(added) > self.max_history
        THEN [self EXCEPT !.history = Tail(added)]
        ELSE [self EXCEPT !.history = added, !.current_index = @ + 1]

push(self, code, description, now) ==
    LET kept == IF self.current_index < Len(self.history) - 1
                THEN SubSeq(self.history, 1, self.current_index + 1)
                ELSE self.history
        added == Append(kept, CodeHistoryEntry(code, description, now))
    IN  IF Len(added) > self.max_history
        THEN [self EXCEPT !.history = Tail(added)]
        ELSE [self EXCEPT !.history = added, !.current_index = @ + 1]

\* the first entry undone too; history[-1] is the last entry
UndoFromFirst(self) ==
    IF self.current_index < 0 THEN [self |-> self, ret |-> NoEntry]
    ELSE LET index == self.current_index - 1
         IN  [self |-> [self EXCEPT !.current_index = index],
              ret |-> IF index < 0 THEN self.history[Len(self.history)] ELSE self.history[index + 1]]

undo(self) ==
    IF ~can_undo(self) THEN [self |-> self, ret |-> NoEntry]
    ELSE [self |-> [self EXCEPT !.current_index = @ - 1], ret |-> self.history[self.current_index]]

redo(self) ==
    IF ~can_redo(self) THEN [self |-> self, ret |-> NoEntry]
    ELSE [self |-> [self EXCEPT !.current_index = @ + 1], ret |-> self.history[self.current_index + 2]]

clear(self) == [self EXCEPT !.history = <<>>, !.current_index = -1]

jump_to(self, index) ==
    IF index < 0 \/ index >= Len(self.history) THEN [self |-> self, ret |-> NoEntry]
    ELSE [self |-> [self EXCEPT !.current_index = index], ret |-> self.history[index + 1]]

(***************************************************************************)
(* The client.  It holds a scene, asks run_local or build_spec about it,   *)
(* and may take an answer of run_local as its new scene (each output fed   *)
(* as the next input).                                                     *)
(***************************************************************************)
Off == [mode |-> "off", objects |-> <<>>]
Raises == [mode |-> "raises", objects |-> <<>>]
Data(objs) == [mode |-> "data", objects |-> objs]

\* a box as the service returns it when it has nothing to say
PlainBox == Part("box1", "box", [width |-> F, depth |-> F, height |-> F], Zero3, Zero3, <<F, F, F>>)

\* what the service is taken to do on a scene: be off, raise, return nothing,
\* return one box, or return the scene it was given
Services(existing) == {Off, Raises, Data(<<>>), Data(<<PlainBox>>), Data(existing.objects)}

\* scenes that break the shape the code expects
MalformedScenes ==
    {NoObjectsScene, ListScene,
     SceneOf(<<[id |-> "box1", type |-> "box", params |-> Missing, transform |-> TDict(_default_transform)]>>),
     SceneOf(<<[id |-> "box1", type |-> "box", params |-> Null, transform |-> TDict(_default_transform)]>>),
     SceneOf(<<[id |-> "box1", type |-> "box", params |-> Dict([width |-> F]), transform |-> TMissing]>>),
     SceneOf(<<[id |-> "box1", type |-> "box", params |-> Dict([width |-> F]),
               transform |-> TDict([position |-> <<F>>])]>>)}

\* UndoRedoManager.__init__: no entry, no call yet
Constructed ==
    /\ history = <<>>
    /\ current_index = -1
    /\ pushes = 0
    /\ op = "none"
    /\ arg = NoArg
    /\ ret = NoEntry

\* the client has asked nothing
Quiet ==
    /\ steps = 0
    /\ addRun = 0
    /\ entry = "none"
    /\ lastText = ""
    /\ ai = Off
    /\ outcome = "none"
    /\ result = NoneScene
    /\ after = NoneScene

\* nothing asked, the history new
Idle == Quiet /\ Constructed /\ max_history = MaxHistory

Init == scene = SceneOf(<<>>) /\ Idle

\* the client starts from any scene: the empty one or a malformed one
InitAny == scene \in {SceneOf(<<>>)} \cup MalformedScenes /\ Idle

\* the client gets the answer r = [raised, scene] of a call
Answer(r) ==
    /\ outcome' = IF r.raised THEN "raised" ELSE "ok"
    /\ result' = r.scene

\* the answer r = [raised, scene, passed] of run_local, and with it the scene
\* that was passed in as the call left it
AnswerLocal(r) ==
    /\ Answer(r)
    /\ after' = r.passed

\* the client calls run_local(t, scene)
RunLocalReq(t) ==
    /\ entry = "none"
    /\ AnswerLocal(RunLocal(t, scene))
    /\ entry' = "run_local"
    /\ lastText' = t
    /\ ai' = Off
    /\ UNCHANGED <<scene, steps, addRun>>
    /\ UNCHANGED managerVars

\* the client calls build_spec(t, json.dumps(scene)) while the service does s
BuildSpecReq(t, s) ==
    /\ entry = "none"
    /\ steps <= MaxAiSteps
    /\ Answer(Call("build_spec", <<t, scene, s>>))
    /\ after' = scene
    /\ entry' = "build_spec"
    /\ lastText' = t
    /\ ai' = s
    /\ UNCHANGED <<scene, steps, addRun>>
    /\ UNCHANGED managerVars

\* the client takes the answer of run_local as its scene
Adopt ==
    /\ entry = "run_local"
    /\ outcome = "ok"
    /\ steps < MaxSteps
    /\ Len(result.objects) <= MaxObjects
    /\ scene' = result
    /\ steps' = steps + 1
    /\ addRun' = IF addRun = steps /\ lastText = ADD_TEXT THEN steps + 1 ELSE -1
    /\ entry' = "none"
    /\ lastText' = ""
    /\ ai' = Off
    /\ outcome' = "none"
    /\ result' = NoneScene
    /\ after' = NoneScene
    /\ UNCHANGED managerVars

Next ==
    \/ \E t \in InScope : RunLocalReq(t)
    \/ \E t \in InScope : \E s \in Services(scene) : BuildSpecReq(t, s)
    \/ Adopt

Spec == Init /\ [][Next]_vars

SpecAny == InitAny /\ [][Next]_vars

\* the client adds boxes and clones them
NextClone ==
    \/ \E t \in {ADD_TEXT} \cup CloneTexts : RunLocalReq(t)
    \/ Adopt

SpecClone == Init /\ [][NextClone]_vars

(***************************************************************************)
(* The mutators on their own.  The client holds a scene, applies one       *)
(* mutator to all its objects (the mutators edit in place) and may keep    *)
(* what it got; or it asks _generic_synthesis for a scene.                 *)
(***************************************************************************)
\* how many edits the client keeps
MaxKept == 2

Box(id, size, color, scale) ==
    [id |-> id, type |-> "box",
     params |-> Dict([width |-> size, depth |-> size, height |-> size, color |-> color]),
     transform |-> TDict([position |-> <<0, 0, 0>>, rotation |-> <<0, 0, 0>>, scale |-> scale])]

\* a vector of n components, each its own value
Vec(n) == SubSeq(<<F, 2 * F, 3 * F, 4 * F, 5 * F>>, 1, n)

\* a box whose transform has vectors of lengths p, r, s (-1: the key is missing)
Bent(p, r, s) ==
    LET put(v, key, n) == IF n < 0 THEN v ELSE Put(v, key, Vec(n))
    IN  [id |-> "box1", type |-> "box", params |-> Dict([width |-> F]),
         transform |-> TDict(put(put(put(EmptyMap, "position", p), "rotation", r), "scale", s))]

BenchScenes ==
    {SceneOf(<<Box("box1", F, "#ff4b5c", <<F, F, F>>)>>),
     SceneOf(<<Box("box1", F, "#ff4b5c", <<F, F, F>>), Box("box2", 2 * F, "#3d7eff", <<F, F, F>>)>>),
     SceneOf(<<Box("box1", 15, "#3d7eff", <<120, 120, 120>>)>>),
     SceneOf(<<[id |-> "model1", type |-> "external_model", params |-> Dict(EmptyMap),
               transform |-> TDict([position |-> <<0, 0, 0>>, rotation |-> <<0, 0, 0>>,
                                    scale |-> <<120, F, 2 * F>>])]>>),
     SceneOf(<<[id |-> "box1", type |-> "box", params |-> Dict([width |-> F]), transform |-> TMissing]>>),
     SceneOf(<<Bent(-1, 0, 1)>>), SceneOf(<<Bent(0, 1, 2)>>), SceneOf(<<Bent(1, 2, 5)>>),
     SceneOf(<<Bent(2, 5, -1)>>), SceneOf(<<Bent(5, -1, 0)>>), SceneOf(<<Bent(3, 3, 3)>>)}

SynthesisTexts == {"", "x", "hello", "add a red box", "make it blue", "a castle on a hill"}

InitBench == scene \in BenchScenes /\ Idle

\* the client gets the answer r = [raised, scene, changed] of a mutator; the
\* objects it passed are the objects it reads
AnswerMutator(r) ==
    /\ outcome' = IF r.raised THEN "raised" ELSE IF r.changed THEN "changed" ELSE "unchanged"
    /\ result' = r.scene
    /\ after' = r.scene

\* the client applies the mutator f with the text t to all its objects
MutatorReq(f, t) ==
    /\ entry = "none"
    /\ AnswerMutator(Call("Applied", <<f, t, scene>>))
    /\ entry' = f
    /\ lastText' = t
    /\ ai' = Off
    /\ UNCHANGED <<scene, steps, addRun>>
    /\ UNCHANGED managerVars

\* the client asks _generic_synthesis(t, {"objects": []})
SynthesisReq(t) ==
    /\ entry = "none"
    /\ steps = 0
    /\ outcome' = "ok"
    /\ result' = SceneOf(Call("_generic_synthesis", <<t, BlankScene.m.h, BlankScene.a>>))
    /\ after' = SceneOf(<<>>)
    /\ entry' = "_generic_synthesis"
    /\ lastText' = t
    /\ ai' = Off
    /\ UNCHANGED <<scene, steps, addRun>>
    /\ UNCHANGED managerVars

\* the client keeps the objects as the mutator left them
Keep ==
    /\ entry \in MUTATORS
    /\ outcome # "raised"
    /\ steps < MaxKept
    /\ scene' = result
    /\ steps' = steps + 1
    /\ addRun' = -1
    /\ entry' = "none"
    /\ lastText' = ""
    /\ ai' = Off
    /\ outcome' = "none"
    /\ result' = NoneScene
    /\ after' = NoneScene
    /\ UNCHANGED managerVars

NextBench ==
    \/ \E t \in ColorTexts : MutatorReq("_apply_color_change", t)
    \/ \E t \in DimensionTexts \cup ScaleTexts :
           \E f \in {"_apply_dimension_change", "_apply_scale_change"} : MutatorReq(f, t)
    \/ MutatorReq("_ensure_transform", "")
    \/ \E t \in SynthesisTexts : SynthesisReq(t)
    \/ Keep

SpecBench == InitBench /\ [][NextBench]_vars

(***************************************************************************)
(* One request on a scene of a few objects: the client asks run_local, or  *)
(* asks _find_targets which objects the text is about.                     *)
(***************************************************************************)
Ball(id, color) ==
    [id |-> id, type |-> "sphere", params |-> Dict([radius |-> F, color |-> color]),
     transform |-> TDict(_default_transform)]

RedBox == Box("box1", F, "#ff4b5c", <<F, F, F>>)
BlueBox2 == Box("box2", F, "#3d7eff", <<F, F, F>>)
BlueBall == Ball("sph1", "#3d7eff")

EditScenes ==
    {SceneOf(<<>>),
     SceneOf(<<RedBox>>),
     SceneOf(<<Box("box1", F, "#3d7eff", <<F, F, F>>)>>),
     SceneOf(<<BlueBall>>),
     SceneOf(<<RedBox, BlueBall>>),
     SceneOf(<<BlueBall, RedBox>>),
     SceneOf(<<RedBox, BlueBox2>>),
     SceneOf(<<Bent(1, 2, 5)>>),
     SceneOf(<<RedBox, BlueBall, Box("box2", F, "#ff4b5c", <<F, F, F>>)>>)}

InitEdit == scene \in EditScenes /\ Idle

\* the client asks _find_targets(scene, t, fallback=fallback)
FindReq(t, fallback) ==
    /\ entry = "none"
    /\ Answer(Call("Targets", <<t, scene, fallback>>))
    /\ after' = scene
    /\ entry' = IF fallback THEN "_find_targets(fallback)" ELSE "_find_targets"
    /\ lastText' = t
    /\ ai' = Off
    /\ UNCHANGED <<scene, steps, addRun>>
    /\ UNCHANGED managerVars

NextEdit ==
    \/ \E t \in StageTexts : RunLocalReq(t)
    \/ \E t \in FindTexts \cup StageTexts : \E fallback \in BOOLEAN : FindReq(t, fallback)

SpecEdit == InitEdit /\ [][NextEdit]_vars

(***************************************************************************)
(* The studio and its code history: push, undo, redo, jump_to and clear    *)
(* called in any order on one manager.                                     *)
(***************************************************************************)
Codes == {"a", "b"}

\* the manager as the variables hold it
Manager == [history |-> history, current_index |-> current_index, max_history |-> max_history]

\* the variables hold the manager self
Becomes(self) ==
    /\ history' = self.history
    /\ current_index' = self.current_index
    /\ max_history' = self.max_history

\* a method that returns r = [self, ret] was called
Returns(r) == Becomes(r.self) /\ ret' = r.ret

Push(code) ==
    /\ pushes < MaxPushes
    /\ Becomes(push(Manager, code, "", pushes + 1))
    /\ pushes' = pushes + 1
    /\ op' = "push"
    /\ arg' = [code |-> code, index |-> 0]
    /\ ret' = NoEntry
    /\ UNCHANGED clientVars

Undo ==
    /\ Returns(undo(Manager))
    /\ op' = "undo"
    /\ arg' = NoArg
    /\ UNCHANGED <<pushes, clientVars>>

Redo ==
    /\ Returns(redo(Manager))
    /\ op' = "redo"
    /\ arg' = NoArg
    /\ UNCHANGED <<pushes, clientVars>>

JumpTo(index) ==
    /\ Returns(jump_to(Manager, index))
    /\ op' = "jump_to"
    /\ arg' = [code |-> "", index |-> index]
    /\ UNCHANGED <<pushes, clientVars>>

Clear ==
    /\ Becomes(clear(Manager))
    /\ op' = "clear"
    /\ arg' = NoArg
    /\ ret' = NoEntry
    /\ UNCHANGED <<pushes, clientVars>>

\* get_manager(): a new manager; max_history is 50 there, here 1 .. MaxHistory
InitUndo ==
    /\ scene = SceneOf(<<>>)
    /\ Quiet
    /\ Constructed
    /\ max_history \in 1..MaxHistory

NextUndo ==
    \/ \E code \in Codes : Push(code)
    \/ Undo
    \/ Redo
    \/ \E index \in -1..MaxHistory : JumpTo(index)
    \/ Clear

SpecUndo == InitUndo /\ [][NextUndo]_vars

(***************************************************************************)
(* Properties.                                                             *)
(***************************************************************************)
\* no two objects of the list have the same id
DistinctIds(objs) == \A i, j \in 1..Len(objs) : i # j => objs[i].id # objs[j].id

\* the request answered last was a call of run_local that returned
Returned == entry = "run_local" /\ outcome = "ok"

\* C1 (scene id uniqueness): in every sequence of run_local requests that
\* starts from the empty scene, each output fed as the next input, the
\* objects of every returned scene have pairwise distinct ids.
C1_IdsUnique == Returned => DistinctIds(result.objects)

\* C2 (total availability): for every text and every scene, the malformed
\* ones included, run_local and build_spec return, and what they return is
\* a mapping whose objects entry is a list.
C2_NeverRaises == entry # "none" => (outcome = "ok" /\ result.k = "dict" /\ result.has)

\* C3 (copy-on-write): after every call of run_local the scene the caller
\* passed is equal to what it was before the call.
C3_CopyOnWrite == entry = "run_local" => after = scene

\* an in-place edit took effect: the returned scene differs from the one passed
C3_EditedInPlace ==
    /\ Returned
    /\ lastText = "make it blue"
    /\ scene.objects # <<>>
    /\ Len(result.objects) = Len(scene.objects)
    /\ result # scene

\* C4 (clear): run_local given a text with clear, reset or start over and a
\* non-empty scene returns a scene whose object list is empty.
C4_ClearEmpties ==
    (entry = "run_local" /\ scene.objects # <<>> /\ HasAny(Normalized(lastText), CLEAR_WORDS))
        => (outcome = "ok" /\ result.objects = <<>>)

\* the request answered last took the local path only: run_local itself, or
\* build_spec while the generative service is off
LocalPath == entry = "run_local" \/ (entry = "build_spec" /\ ai.mode = "off")

\* C5 (empty-scene add): asked to add a red box to the scene {objects: []},
\* the orchestrator returns exactly one object: a box with id box1, color
\* #ff4b5c, and width, depth and height at their defaults.
C5_AddRedBox ==
    (LocalPath /\ lastText = ADD_TEXT /\ scene = SceneOf(<<>>))
        => /\ outcome = "ok"
           /\ Len(result.objects) = 1
           /\ result.objects[1].id = "box1"
           /\ result.objects[1].type = "box"
           /\ result.objects[1].params =
                  Dict(Call("_default_params_for_type", <<"box", "", <<>>>>) @@ [color |-> "#ff4b5c"])

\* the scene holds one box and nothing else
SingleBoxScene == scene.k = "dict" /\ scene.has /\ SingleBox(scene.objects)

\* C6 (targeted recolor): asked to make it blue on a scene of a single box,
\* the orchestrator returns that one object with its color set to #3d7eff
\* and its id, type, other params and transform unchanged.
C6_Recolor ==
    (LocalPath /\ lastText = "make it blue" /\ SingleBoxScene /\ scene.objects[1].params.k = "dict")
        => /\ outcome = "ok"
           /\ result.objects =
                  <<[scene.objects[1] EXCEPT !.params.m = Put(@, "color", "#3d7eff")]>>

\* the indices of the objects of a type
OfType(objs, type) == {i \in 1..Len(objs) : objs[i].type = type}

\* the position of the i-th object
PositionOf(objs, i) == objs[i].transform.v.position

\* every wheel has a wheel mirrored in X and a wheel mirrored in Y
WheelsSymmetric(objs) ==
    \A i \in OfType(objs, "torus") :
        /\ \E j \in OfType(objs, "torus") :
               PositionOf(objs, j) = <<-PositionOf(objs, i)[1], PositionOf(objs, i)[2], PositionOf(objs, i)[3]>>
        /\ \E j \in OfType(objs, "torus") :
               PositionOf(objs, j) = <<PositionOf(objs, i)[1], -PositionOf(objs, i)[2], PositionOf(objs, i)[3]>>

\* the request answered last asked for a car on the empty scene
CarOnEmpty == entry # "none" /\ lastText = "create a car" /\ scene = SceneOf(<<>>)

\* C7 (composite car): asked to create a car on an empty scene, run_local
\* and build_spec (the service off, raising, or answering with nothing or a
\* single box) return at least 5 objects, exactly one of them a box and
\* exactly four of them tori, the wheels symmetric in X and in Y.
C7_Car ==
    CarOnEmpty
        => /\ outcome = "ok"
           /\ Len(result.objects) >= 5
           /\ Cardinality(OfType(result.objects, "box")) = 1
           /\ Cardinality(OfType(result.objects, "torus")) = 4
           /\ WheelsSymmetric(result.objects)

\* a car was returned, its wheels off the axes
C7_CarReturned ==
    /\ CarOnEmpty
    /\ outcome = "ok"
    /\ Cardinality(OfType(result.objects, "torus")) = 4
    /\ \A i \in OfType(result.objects, "torus") :
           PositionOf(result.objects, i)[1] # 0 /\ PositionOf(result.objects, i)[2] # 0

\* what the service returned is degenerate: nothing, or a box and nothing else
Degenerate(objs) == objs = <<>> \/ SingleBox(objs)

\* C8 (degenerate AI output is rejected): when the service returns an empty
\* object list or a single box and the existing scene holds two objects or
\* more, build_spec returns the objects of the existing scene followed by
\* the locally synthesized ones, whatever the text.
C8_DegenerateRejected ==
    (entry = "build_spec" /\ ai.mode = "data" /\ Degenerate(ai.objects) /\ Len(scene.objects) >= 2)
        => /\ outcome = "ok"
           /\ result.objects = scene.objects \o Synthesized(lastText)

\* C9 (AI failure never reaches the caller): when the call of the service
\* raises, build_spec returns, and what it returns is the result of the
\* local path for the same text and scene.
C9_FailureFallsBack ==
    (entry = "build_spec" /\ ai.mode = "raises")
        => /\ outcome = "ok"
           /\ result = LocalOnly(lastText, scene).scene

\* the service raised on a scene that holds objects, and build_spec answered
C9_ServiceRaised ==
    /\ entry = "build_spec"
    /\ ai.mode = "raises"
    /\ scene.objects # <<>>
    /\ outcome = "ok"
    /\ result.objects # <<>>

\* the ids of the objects, in order
IdsOf(objs) == [i \in 1..Len(objs) |-> objs[i].id]

\* box1 .. boxn
BoxIds(n) == [i \in 1..n |-> "box" \o ToString(i)]

\* the smallest positive suffix no box id of the objects uses
SmallestFree(objs) ==
    CHOOSE k \in 1..(Len(objs) + 1) :
        /\ \A i \in 1..Len(objs) : objs[i].id # "box" \o ToString(k)
        /\ \A j \in 1..(k - 1) : \E i \in 1..Len(objs) : objs[i].id = "box" \o ToString(j)

\* C10 (id sequence): N successive adds of a box from the empty scene give
\* the ids box1 .. boxN, and an add on any scene, also after a removal,
\* gives the new box the smallest positive suffix the scene does not use.
C10_IdSequence ==
    /\ addRun >= 1 => IdsOf(scene.objects) = BoxIds(addRun)
    /\ (Returned /\ lastText = ADD_TEXT /\ Len(result.objects) = Len(scene.objects) + 1)
           => result.objects[Len(result.objects)].id = "box" \o ToString(SmallestFree(scene.objects))

\* box1 was removed from box1, box2, and the next add got its suffix again
C10_AddAfterRemoval ==
    /\ Returned
    /\ lastText = ADD_TEXT
    /\ IdsOf(scene.objects) = <<"box2">>
    /\ IdsOf(result.objects) = <<"box2", "box1">>

\* what the utterance adds to the position of a clone
Shift(text) == IF text = "copy the box and move it up by 3" THEN <<0, 0, 3 * F>> ELSE <<0, 0, 0>>

\* the params of a clone of an object with params pm
Tinted(text, pm) ==
    IF text = "clone the box in green" THEN [pm EXCEPT !.m = Put(@, "color", "#34c759")] ELSE pm

\* c is the copy of o moved by (2, 0, 0), with what the utterance asks for on top
CloneOf(c, o, text) ==
    /\ c.type = o.type
    /\ c.params = Tinted(text, o.params)
    /\ c.transform.k = "dict"
    /\ c.transform.v.rotation = o.transform.v.rotation
    /\ c.transform.v.scale = o.transform.v.scale
    /\ c.transform.v.position =
           <<o.transform.v.position[1] + 2 * F + Shift(text)[1],
             o.transform.v.position[2] + Shift(text)[2],
             o.transform.v.position[3] + Shift(text)[3]>>

\* the request answered last was a clone utterance on a scene that holds objects
Cloned == Returned /\ lastText \in CloneTexts /\ scene.objects # <<>>

\* C11 (clone independence): after a clone utterance the objects the scene
\* held come first in the answer with their params and transforms as they
\* were, at least one object follows them, and each of those is a copy of one
\* of them at its position plus (2, 0, 0), changed only by the mutators the
\* utterance re-applies (its color, its move).
C11_CloneIndependence ==
    Cloned
        => /\ Len(result.objects) > Len(scene.objects)
           /\ SubSeq(result.objects, 1, Len(scene.objects)) = scene.objects
           /\ \A j \in (Len(scene.objects) + 1)..Len(result.objects) :
                  \E i \in 1..Len(scene.objects) :
                      CloneOf(result.objects[j], scene.objects[i], lastText)

\* a red box was cloned in green: the clone is green and the original still red
C11_GreenClone ==
    /\ Cloned
    /\ lastText = "clone the box in green"
    /\ Len(scene.objects) = 1
    /\ scene.objects[1].params.m["color"] = "#ff4b5c"
    /\ Len(result.objects) = 2
    /\ result.objects[1].params.m["color"] = "#ff4b5c"
    /\ result.objects[2].params.m["color"] = "#34c759"
    /\ result.objects[2].transform.v.position = <<2 * F, 0, 0>>

\* the colour names of the text as whole words: <<start, end, k>>, k the
\* name's place in COLOR_KEYWORDS
NamesIn(text) ==
    {<<i, i + Len(COLOR_KEYWORDS[k][1]) - 1, k>> : <<i, k>> \in
        {p \in (1..Len(text)) \X (1..Len(COLOR_KEYWORDS)) : WordAt(text, COLOR_KEYWORDS[p[2]][1], p[1])}}

\* those that are not part of a longer one ("blue" in "light blue" is)
WholeNamesIn(text) ==
    {n \in NamesIn(text) :
        ~\E o \in NamesIn(text) : o # n /\ o[1] <= n[1] /\ n[2] <= o[2]}

\* the hex of the name that starts rightmost
RightmostHex(text) ==
    LET last == CHOOSE n \in WholeNamesIn(text) : \A o \in WholeNamesIn(text) : o[1] <= n[1]
    IN  COLOR_KEYWORDS[last[3]][2]

\* every object of the scene has the colour hex
AllColored(sv, hex) ==
    \A i \in 1..Len(sv.objects) :
        /\ "color" \in DOMAIN sv.objects[i].params.m
        /\ sv.objects[i].params.m["color"] = hex

ColorApplied ==
    /\ entry = "_apply_color_change"
    /\ outcome # "raised"
    /\ WholeNamesIn(lastText) # {}

\* C12: last-mentioned colour wins.  The colour mutator sets the colour of
\* every target to the hex of the colour name that starts rightmost in the
\* text (for "make the red box blue" the hex of blue, never of red), and it
\* reports no change exactly when every target had that colour already.
C12_LastColorWins ==
    ColorApplied =>
        /\ AllColored(result, RightmostHex(lastText))
        /\ lastText = "make the red box blue" => AllColored(result, "#3d7eff")
        /\ outcome = "unchanged" <=> AllColored(scene, RightmostHex(lastText))
        /\ outcome = "unchanged" => result = scene

\* a red box and a blue box were told "make the red box blue": both are
\* blue and a change is reported
C12_RedBoxBlue ==
    /\ ColorApplied
    /\ lastText = "make the red box blue"
    /\ Len(scene.objects) = 2
    /\ scene.objects[1].params.m["color"] = "#ff4b5c"
    /\ AllColored(result, "#3d7eff")
    /\ outcome = "changed"

\* the parameters the dimension mutator adjusts
DimensionKeys == {"width", "depth", "height", "radius", "tube", "size"}

\* the dimension parameters of the object after that differ from those of
\* the object before: the ones that were written
WrittenKeys(before, now) ==
    {key \in DOMAIN now.params.m \cap DimensionKeys :
        key \notin DOMAIN before.params.m \/ now.params.m[key] # before.params.m[key]}

\* the scale of the object was written
ScaleWritten(before, now) ==
    /\ now.transform.k = "dict"
    /\ "scale" \in DOMAIN now.transform.v
    /\ \/ "scale" \notin DOMAIN before.transform.v
       \/ now.transform.v["scale"] # before.transform.v["scale"]

Resized ==
    /\ entry \in {"_apply_dimension_change", "_apply_scale_change"}
    /\ outcome # "raised"

\* C13: scaling floor.  After any run of shrink requests and after any
\* explicit value, zero and negative ones included, every dimension
\* parameter the dimension mutator wrote is at least 0.001 and every scale
\* component written by the scale mutator or by the dimension mutator's
\* scale fallback is at least 0.01.
C13_ScalingFloor ==
    Resized =>
        \A i \in 1..Len(result.objects) :
            /\ \A key \in WrittenKeys(scene.objects[i], result.objects[i]) :
                   result.objects[i].params.m[key] >= F \div 1000
            /\ ScaleWritten(scene.objects[i], result.objects[i]) =>
                   \A j \in 1..3 : result.objects[i].transform.v["scale"][j] >= F \div 100

\* a box shrunk twice is asked to shrink again: 0.8 of its width would be
\* below the floor, and the floor is what it gets
C13_ShrunkToFloor ==
    /\ Resized
    /\ entry = "_apply_dimension_change"
    /\ lastText = "make it smaller"
    /\ steps >= 1
    /\ Len(scene.objects) = 1
    /\ scene.objects[1].params.m["width"] > F \div 1000
    /\ (scene.objects[1].params.m["width"] * 4) \div 5 < F \div 1000
    /\ result.objects[1].params.m["width"] = F \div 1000

\* the vector the repair owes for key: the first three components the
\* transform t has there, in order, and fill in the slots it has not
Owed(t, key, fill) ==
    [n \in 1..3 |-> IF key \in DOMAIN t.v /\ n <= Len(t.v[key]) THEN t.v[key][n] ELSE fill]

\* the transform has its three vectors and each has three components
WellFormed(t) ==
    /\ t.k = "dict"
    /\ \A key \in {"position", "rotation", "scale"} : key \in DOMAIN t.v /\ Len(t.v[key]) = 3

Ensured == entry = "_ensure_transform" /\ outcome # "raised"

\* C14: idempotent transform repair.  For an object whose position,
\* rotation or scale is missing or has 0, 1, 2 or 5 components,
\* _ensure_transform leaves each vector with exactly 3 components, the
\* first existing ones kept in order and the missing slots filled with 0
\* (position, rotation) or 1 (scale); on an object already repaired it
\* changes nothing.
C14_RepairIdempotent ==
    Ensured =>
        /\ Len(result.objects) = Len(scene.objects)
        /\ \A i \in 1..Len(scene.objects) :
            LET before == scene.objects[i]
                now == result.objects[i]
            IN  /\ WellFormed(now.transform)
                /\ now.transform.v["position"] = Owed(before.transform, "position", 0)
                /\ now.transform.v["rotation"] = Owed(before.transform, "rotation", 0)
                /\ now.transform.v["scale"] = Owed(before.transform, "scale", F)
                /\ now.id = before.id /\ now.type = before.type /\ now.params = before.params
                /\ WellFormed(before.transform) => now = before

\* a box with 1, 2 and 5 components was repaired and kept, and is repaired
\* again: nothing changes
C14_RepairedTwice ==
    /\ Ensured
    /\ steps >= 1
    /\ Len(scene.objects) = 1
    /\ scene.objects[1].transform =
           TDict([position |-> <<F, 0, 0>>, rotation |-> <<F, 2 * F, 0>>, scale |-> <<F, 2 * F, 3 * F>>])
    /\ result = scene

Synthesised == entry = "_generic_synthesis"

Removal == entry = "run_local" /\ lastText = "remove box2"

\* C16: removal on an empty scene is a no-op.  A remove utterance given to
\* run_local with a scene of zero objects returns a scene of zero objects
\* and does not raise.
C16_RemovalOnEmpty ==
    (Removal /\ scene.objects = <<>>) =>
        /\ outcome = "ok"
        /\ result.objects = <<>>

\* C17: removal with a missing id reference is a no-op.  A remove utterance
\* naming an id that no object of a non-empty scene has returns the same
\* objects in the same order.
C17_RemovalOfMissingId ==
    (Removal /\ scene.objects # <<>> /\ \A i \in 1..Len(scene.objects) : scene.objects[i].id # "box2") =>
        /\ outcome = "ok"
        /\ result.objects = scene.objects

\* the place of the object the removal owes: the first whose id is in the
\* text; when there is none the first whose type is in the text; when
\* there is none the last
Preferred(objs, text) ==
    LET named == {i \in 1..Len(objs) : objs[i].id # "" /\ Contains(text, Lower(objs[i].id))}
        typed == {i \in 1..Len(objs) : objs[i].type # "" /\ Contains(text, objs[i].type)}
        least(S) == CHOOSE i \in S : \A j \in S : i <= j
    IN  IF named # {} THEN least(named)
        ELSE IF typed # {} THEN least(typed)
        ELSE Len(objs)

Without(objs, i) == SubSeq(objs, 1, i - 1) \o SubSeq(objs, i + 1, Len(objs))

\* C20: removal priority.  On a scene of several objects a remove utterance
\* removes exactly one object, the others keeping their order: an object
\* whose id is in the text before any object matched by its type only, the
\* first object whose type is in the text when no id is, the last object
\* when neither is.
C20_RemovalPriority ==
    (Removal /\ Len(scene.objects) >= 2) =>
        /\ outcome = "ok"
        /\ result.objects = Without(scene.objects, Preferred(scene.objects, Lower(lastText)))

\* C18: push discards the redo history.  After push(code) from any state,
\* after undo or jump_to calls and with the history at max_history
\* included, can_redo() is false and get_current() is the entry just
\* pushed.
C18_PushDiscardsRedo ==
    op = "push" =>
        /\ ~can_redo(Manager)
        /\ get_current(Manager) = [code |-> arg.code, description |-> "", timestamp |-> pushes]
        /\ history[Len(history)] = get_current(Manager)
        /\ Len(history) <= max_history

\* the history was full, two entries were undone and one was pushed: the
\* two are gone and the new entry is the current one
C18_PushAfterUndo ==
    /\ op = "push"
    /\ max_history = 3
    /\ pushes = 4
    /\ Len(history) = 2
    /\ history[1].timestamp = 1
    /\ current_index = 1
    /\ get_current(Manager).timestamp = 4

\* the call made in this step cannot be served
Unavailable ==
    \/ op' = "undo" /\ current_index <= 0
    \/ op' = "redo" /\ current_index = Len(history) - 1
    \/ op' = "jump_to" /\ (arg'.index < 0 \/ arg'.index >= Len(history))

\* C19: unavailable undo and redo change nothing.  undo() when
\* current_index <= 0, redo() when current_index is the last index and
\* jump_to(index) with index < 0 or index >= len(history) return None and
\* leave history and current_index as they were; so the first pushed state
\* is never undone.
C19_UnavailableChangesNothing ==
    [][Unavailable =>
        /\ ret' = NoEntry
        /\ history' = history
        /\ current_index' = current_index]_vars

\* undo was called with only the first pushed entry in the history: it
\* returned None and the entry is still the current one
C19_FirstNotUndone ==
    /\ op = "undo"
    /\ ret = NoEntry
    /\ pushes = 1
    /\ Len(history) = 1
    /\ current_index = 0

\* C28: the history invariant.  After any sequence of push, undo, redo,
\* jump_to and clear, len(history) <= max_history, and either the history
\* is empty with current_index = -1 or 0 <= current_index < len(history);
\* right after every push, one that drops the oldest entry included,
\* current_index = len(history) - 1.
C28_HistoryInvariant ==
    /\ Len(history) <= max_history
    /\ \/ history = <<>> /\ current_index = -1
       \/ 0 <= current_index /\ current_index < Len(history)
    /\ op = "push" => current_index = Len(history) - 1

\* a push onto a full history: the oldest entry is gone, the history is
\* still full and the new entry is the current one
C28_PushAtCapacity ==
    /\ op = "push"
    /\ max_history = 2
    /\ pushes = 3
    /\ Len(history) = 2
    /\ history[1].timestamp = 2
    /\ history[2].timestamp = 3
    /\ current_index = 1

\* the scores _find_targets gives the objects of the scene for the text, in
\* scene order
ScoresOf(sv, text) ==
    LET passed == LoadScene(NewMachine, sv)
    IN  Scores(passed.m.h, ObjectsOf(passed.m.h, passed.a), Lower(Normalized(text)),
               Mentions(Normalized(text)), 1)

\* the place in the scene of the j-th object returned
PlaceOf(j) == CHOOSE i \in 1..Len(scene.objects) : scene.objects[i] = result.objects[j]

Searched == entry \in {"_find_targets", "_find_targets(fallback)"} /\ outcome = "ok"

\* C21: target ranking.  _find_targets returns exactly the objects whose
\* score is above 0, by descending score, objects of equal score in scene
\* order; when no object scores above 0 it returns the last object alone
\* if fallback is set and nothing otherwise, and nothing for an empty
\* scene.
C21_TargetRanking ==
    Searched =>
        LET score == ScoresOf(scene, lastText)
            scoring == {i \in 1..Len(scene.objects) : score[i] > 0}
            n == Len(result.objects)
        IN  IF scoring # {}
            THEN /\ \A j \in 1..n : \E i \in scoring : scene.objects[i] = result.objects[j]
                 /\ {PlaceOf(j) : j \in 1..n} = scoring
                 /\ n = Cardinality(scoring)
                 /\ \A j \in 1..n : \A k \in (j + 1)..n :
                        \/ score[PlaceOf(j)] > score[PlaceOf(k)]
                        \/ score[PlaceOf(j)] = score[PlaceOf(k)] /\ PlaceOf(j) < PlaceOf(k)
            ELSE IF entry = "_find_targets(fallback)" /\ scene.objects # <<>>
            THEN result.objects = <<scene.objects[Len(scene.objects)]>>
            ELSE result.objects = <<>>

\* of a red box, a blue sphere and a second red box, "make the sphere and
\* box2 bigger" finds box2 first (its id and its type), then box1 and the
\* sphere, which score the same, in scene order
C21_RankedWithTie ==
    /\ Searched
    /\ lastText = "make the sphere and box2 bigger"
    /\ Len(scene.objects) = 3
    /\ IdsOf(scene.objects) = <<"box1", "sph1", "box2">>
    /\ IdsOf(result.objects) = <<"box2", "box1", "sph1">>

\* run_local answered a request that removes nothing and loads nothing
Staged ==
    /\ entry = "run_local"
    /\ outcome = "ok"
    /\ lastText \in StageTexts
    /\ scene.objects # <<>>

\* the targets run_local works on: those of the text, else the last object
\* unless the text asks to add
TargetsOf(sv, text) ==
    LET strict == Targets(text, sv, FALSE).scene.objects
    IN  IF strict = <<>> /\ sv.objects # <<>> /\ ~AddIntent(Normalized(text))
        THEN Targets(text, sv, TRUE).scene.objects
        ELSE strict

\* the objects of the scene are the first objects of the answer, unchanged
OriginalsKept ==
    /\ Len(result.objects) >= Len(scene.objects)
    /\ SubSeq(result.objects, 1, Len(scene.objects)) = scene.objects

\* the object with its transform as _ensure_transform leaves it; the
\* mutators repair the transform of a target without counting it a change
Mended(o) ==
    [o EXCEPT !.transform =
        TDict([key \in {"position", "rotation", "scale"} |->
                  Owed(o.transform, key, IF key = "scale" THEN F ELSE 0)])]

\* the places where the answer has another object than the scene
Altered ==
    {i \in 1..Len(scene.objects) :
        i > Len(result.objects) \/ result.objects[i] \notin {scene.objects[i], Mended(scene.objects[i])}}

\* the places where the answer has an object of another type
Retyped ==
    {i \in 1..Len(scene.objects) : i <= Len(result.objects) /\ result.objects[i].type # scene.objects[i].type}

CloneAsked == TargetsOf(scene, lastText) # <<>> /\ HasAny(Normalized(lastText), CLONE_KEYWORDS)

\* C22: stage priority.  In one request at most one of clone, replace,
\* in-place edit and add takes effect, in that order: with targets and a
\* clone keyword only clones are appended (one for each target, nothing
\* replaced, no original edited, nothing else added); otherwise a replace
\* that succeeds ends the request (one object changed, same count);
\* otherwise, when a mutator changed a target, nothing is added even when
\* the text has add vocabulary.
C22_StagePriority ==
    Staged =>
        /\ CloneAsked =>
               /\ OriginalsKept
               /\ Len(result.objects) = Len(scene.objects) + Len(TargetsOf(scene, lastText))
               /\ \A j \in 1..Len(TargetsOf(scene, lastText)) :
                      result.objects[Len(scene.objects) + j].type = TargetsOf(scene, lastText)[j].type
        /\ (~CloneAsked /\ Retyped # {}) =>
               /\ Len(result.objects) = Len(scene.objects)
               /\ Cardinality(Altered) = 1
        /\ (~CloneAsked /\ Retyped = {} /\ Altered # {}) =>
               Len(result.objects) = Len(scene.objects)

\* "make the box green and add a sphere" on a red box: the box is green and
\* nothing was added
C22_EditedNotAdded ==
    /\ Staged
    /\ lastText = "make the box green and add a sphere"
    /\ scene.objects = <<RedBox>>
    /\ Len(result.objects) = 1
    /\ result.objects[1] = Box("box1", F, "#34c759", <<F, F, F>>)

\* C23: no change falls through to add.  When targets exist, no clone or
\* replace took effect and no mutator changed anything, the request is
\* treated as an add: the answer has at least one object more than the
\* scene.
C23_NoChangeAdds ==
    (Staged /\ TargetsOf(scene, lastText) # <<>> /\ ~CloneAsked /\ Altered = {}) =>
        Len(result.objects) >= Len(scene.objects) + 1

\* a replace took effect: no clone was asked for and an object has a new type
Replaced == Staged /\ ~CloneAsked /\ Retyped # {}

\* the place in the scene of the first target of the request
FirstTarget == CHOOSE i \in 1..Len(scene.objects) : scene.objects[i] = TargetsOf(scene, lastText)[1]

\* the color the replacement owes: the one the text names, else the target's
OwedColor(text, pm) ==
    IF WholeNamesIn(text) # {} THEN RightmostHex(text)
    ELSE IF "color" \in DOMAIN pm THEN pm["color"] ELSE ""

\* C24: replace is in place.  When a replace succeeds the scene has as many
\* objects as before; the replacement sits at the place of the replaced
\* target, with its id, with its transform as the repair leaves it, and
\* with its color unless the text names one; every other object and the
\* order are unchanged.
C24_ReplaceInPlace ==
    Replaced =>
        LET i == FirstTarget
            old == scene.objects[i]
            new == result.objects[i]
        IN  /\ Len(result.objects) = Len(scene.objects)
            /\ Altered = {i}
            /\ new.id = old.id
            /\ new.transform.k = "dict"
            /\ \A key \in {"position", "rotation"} : new.transform.v[key] = Owed(old.transform, key, 0)
            /\ new.transform.v["scale"] = Owed(old.transform, "scale", F)
            /\ new.params.k = "dict"
            /\ OwedColor(lastText, old.params.m) =
                   (IF "color" \in DOMAIN new.params.m THEN new.params.m["color"] ELSE "")

\* of a red box, a blue sphere and a second red box, "replace the box with
\* a sphere" makes the first box a red sphere with the id box1 where the
\* box was and leaves the other two as they were
C24_BoxBecomesSphere ==
    /\ Replaced
    /\ lastText = "replace the box with a sphere"
    /\ scene.objects = <<RedBox, BlueBall, Box("box2", F, "#ff4b5c", <<F, F, F>>)>>
    /\ Len(result.objects) = 3
    /\ result.objects[1].id = "box1"
    /\ result.objects[1].type = "sphere"
    /\ result.objects[1].params.m["color"] = "#ff4b5c"
    /\ result.objects[1].transform = RedBox.transform
    /\ result.objects[2] = BlueBall
    /\ result.objects[3] = scene.objects[3]

\* C25: replace with the same type is a no-op.  For a replace utterance
\* whose detected new type is the type the target has ("replace the box
\* with a box") run_local returns the scene unchanged: nothing added,
\* removed, moved or modified.
C25_ReplaceSameType ==
    (/\ Staged
     /\ ~CloneAsked
     /\ HasAny(Normalized(lastText), REPLACE_KEYWORDS)
     /\ TargetsOf(scene, lastText) # <<>>
     /\ ObjectType(Normalized(lastText)) = scene.objects[FirstTarget].type) =>
        result.objects = scene.objects

Range(seq) == {seq[i] : i \in 1..Len(seq)}

\* C26: dimension numbers are consumed in order.  When one utterance names
\* several dimensions of a target with numbers ("width 5 height 3" on a
\* box), each parameter named gets the next unused number (width 5, height
\* 3): no number goes to two parameters of the same target.
C26_NumbersInOrder ==
    (Staged /\ lastText = "set width 5 height 3") =>
        \A i \in 1..Len(scene.objects) :
            (/\ scene.objects[i] \in Range(TargetsOf(scene, lastText))
             /\ scene.objects[i].type = "box"
             /\ {"width", "height"} \subseteq DOMAIN scene.objects[i].params.m) =>
                /\ result.objects[i].params.m["width"] = 5 * F
                /\ result.objects[i].params.m["height"] = 3 * F

\* C27: clones get fresh ids.  A clone utterance that resolves k >= 1
\* targets returns a scene with exactly k more objects, appended after the
\* existing ones, and the id of each clone differs from every other id of
\* the returned scene, the ids of the other clones of the same utterance
\* included.
C27_CloneIdsFresh ==
    (Staged /\ CloneAsked) =>
        /\ OriginalsKept
        /\ Len(result.objects) = Len(scene.objects) + Len(TargetsOf(scene, lastText))
        /\ \A j \in (Len(scene.objects) + 1)..Len(result.objects) :
               \A i \in 1..Len(result.objects) :
                   i # j => result.objects[i].id # result.objects[j].id

\* C29: a move-only utterance changes only position.  When the text has a
\* move verb, a direction and a distance and no color, dimension, grow,
\* shrink, rotate or scale vocabulary, run_local changes only the position
\* of the targets: the params of every object, a sphere's too, and every
\* rotation and scale are as they were.
C29_MoveOnlyPosition ==
    (Staged /\ lastText \in {"move the sphere up by 3", "move the box up by 3"}) =>
        /\ Len(result.objects) = Len(scene.objects)
        /\ \A i \in 1..Len(scene.objects) :
               /\ result.objects[i].id = scene.objects[i].id
               /\ result.objects[i].type = scene.objects[i].type
               /\ result.objects[i].params = scene.objects[i].params
               /\ result.objects[i] # scene.objects[i] =>
                      /\ result.objects[i].transform.v["rotation"] = Mended(scene.objects[i]).transform.v["rotation"]
                      /\ result.objects[i].transform.v["scale"] = Mended(scene.objects[i]).transform.v["scale"]

\* build_spec has answered with the service unavailable
Backstopped == entry = "build_spec" /\ ai = Off /\ outcome = "ok"

\* C30: the local-only backstop of build_spec.  With the service
\* unavailable build_spec never returns an empty object list and never a
\* scene of exactly one box; when the result of run_local is empty or a
\* single box, added or edited, what is returned is the composite for the
\* text or, when there is none, the three to five seeded primitives.
C30_LocalBackstop ==
    Backstopped =>
        /\ result.objects # <<>>
        /\ ~SingleBox(result.objects)
        /\ Degenerate(RunLocal(lastText, after).scene.objects) =>
               IF Composite(lastText) # <<>>
               THEN result.objects = Composite(lastText)
               ELSE /\ result.objects = Call("_generic_synthesis", <<lastText, BlankScene.m.h, BlankScene.a>>)
                    /\ Len(result.objects) \in 3..5

\* the one box of the scene is recolored and the seeded primitives returned
C30_EditedBoxReplaced ==
    /\ Backstopped
    /\ lastText = "make it blue"
    /\ SingleBox(after.objects)
    /\ SingleBox(RunLocal(lastText, after).scene.objects)
    /\ Len(result.objects) \in 3..5

====
